---- MODULE Spec2Model ----
(***************************************************************************)
(* A model of the ai-agents orchestration core:                            *)
(*   - agent/state.py, agent/multi/state.py : the per-field reducers       *)
(*   - agent/checkpoint.py                  : the JSONL checkpoint store   *)
(*   - agent/graph.py, agent/multi/graph_multi.py and the nodes they       *)
(*     register, executed by the graph engine in supersteps                *)
(*                                                                         *)
(* Python values are modelled as follows.  A dict is a function whose      *)
(* DOMAIN is its set of keys; a list is a sequence; a text is a sequence   *)
(* of words; an Optional result is a record tagged "None" / "value" /      *)
(* "raise".                                                                *)
(***************************************************************************)
EXTENDS Integers, Sequences, FiniteSets, TLC

\* ------------------------------------------------------------------ bounds
\* Longest checkpoint log the store specification lets append build.
MaxLog == 3
\* Number of checkpoint ids the store specification lets append generate.
MaxIds == 4
\* Longest list drawn as an input of the reducers.
MaxLen == 2
\* Number of runs (run_agent or run_multi calls) one behaviour makes.
MaxRuns == 2
\* A rate ceiling and a trace cap small enough for MaxRuns runs to reach.
SmallCeiling == 1
SmallTraceCap == 3
\* The clock moves TickStep seconds at a time between runs, up to MaxTime.
\* Limiter specification: calls of _rate_limit, and steps of the clock.
MaxCalls == 3
MaxTicks == 3
MaxCeiling == 2
TickStep == 61
MaxTime == 61

VARIABLES
  file,      \* history.jsonl: the sequence of its lines
  exists,    \* whether history.jsonl exists on disk
  nextId,    \* the next token uuid4 will hand out (tokens are never reused)
  now,       \* time.time(): it has moved on whenever it is read again
  op,        \* the last operation that returned (observation)
  arg,       \* its argument (observation)
  ret,       \* its result (observation)
  before,    \* load_all() as it was when that operation was called (observation)
  ma, mb, mc, \* inputs of the reducers (reducer specification)
  graph,     \* the compiled graph this process runs: "single" or "multi"
  memory,    \* whether langgraph's MemorySaver could be imported
  conf,      \* the governance and tracing settings read from the environment
  hitl,      \* content of the approval file: "absent", "yes" or "no"
  reqTimes,  \* _REQUEST_TIMES, the rate limiter's window
  chan,      \* the thread's channel values: the accumulated state
  pc,        \* "idle", or where the current run is
  tasks,     \* nodes of the current superstep still to run
  writes,    \* the partial state each node of this superstep returned
  trig,      \* the nodes each node of this superstep triggers
  merged,    \* nodes of this run whose writes were applied (observation)
  trail,     \* nodes completed in this run, in completion order (observation)
  effects,   \* side effects performed in this run (observation)
  gov,       \* what governance_node set in this run (observation)
  result,    \* what the last run returned (observation)
  runs,      \* runs started so far
  waiting,   \* threads inside _rate_limit between reading the clock and
             \* acquiring _RATE_LOCK, each with the value of its local "now"
  calls      \* the calls of _rate_limit that returned, in the order they
             \* held the lock (observation)

storeVars == <<file, exists, nextId, now>>
obsVars == <<op, arg, ret, before>>
mergeVars == <<ma, mb, mc>>
engineVars == <<graph, memory, conf, hitl, reqTimes, chan, pc, tasks, writes,
                trig, merged, trail, effects, gov, result, runs, waiting,
                calls>>
vars == <<storeVars, obsVars, mergeVars, engineVars>>

\* ------------------------------------------------------------ Python values
None == [tag |-> "None"]
Some(v) == [tag |-> "value", val |-> v]
Raise(e) == [tag |-> "raise", exc |-> e]

Max(a, b) == IF a >= b THEN a ELSE b
Min(a, b) == IF a <= b THEN a ELSE b

\* seq[i] of a Python list: 0-based, a negative i counts from the end, and an
\* index outside the list raises IndexError.
PyIndex(seq, i) ==
  IF 0 <= i /\ i < Len(seq) THEN Some(seq[i + 1])
  ELSE IF i < 0 /\ -i <= Len(seq) THEN Some(seq[Len(seq) + i + 1])
  ELSE Raise("IndexError")

IsPrefix(s, t) == Len(s) <= Len(t) /\ SubSeq(t, 1, Len(s)) = s

\* --------------------------------------------------- reducers (agent/state.py)
\* The arguments of a reducer are Optional: None, or Some(list) / Some(dict).

\* _merge_list(prev, new): None counts as [], then prev + new.
_merge_list_new_only(prev, new) ==
  IF new = None THEN <<>> ELSE new.val

_merge_list(prev, new) ==
  LET p == IF prev = None THEN <<>> ELSE prev.val
      n == IF new = None THEN <<>> ELSE new.val
  IN  p \o n

\* dict.update: the keys of b override those of a, the other keys of a stay.
DictUpdate(a, b) ==
  [k \in DOMAIN a \cup DOMAIN b |-> IF k \in DOMAIN b THEN b[k] ELSE a[k]]

EmptyDict == [k \in {} |-> 0]

\* A dict that is falsy in Python: None or {}.
Falsy(d) == d = None \/ DOMAIN d.val = {}

\* _merge_dict(prev, new) of agent/state.py: a fresh dict, prev then new.
_merge_dict_new_only(prev, new) ==
  IF Falsy(new) THEN EmptyDict ELSE new.val

_merge_dict(prev, new) ==
  LET m0 == EmptyDict
      m1 == IF ~Falsy(prev) THEN DictUpdate(m0, prev.val) ELSE m0
      m2 == IF ~Falsy(new) THEN DictUpdate(m1, new.val) ELSE m1
  IN  m2

\* ---------------------------------------------- reducers (agent/multi/state.py)
\* operator.add on two lists (the append reducer of MultiAgentState): a + b;
\* None on either side raises TypeError.
operator_add(a, b) ==
  IF a = None \/ b = None THEN Raise("TypeError") ELSE Some(a.val \o b.val)

\* _merge_dict of agent/multi/state.py with the keys of a kept over those of b.
multi_merge_dict_keep_old(a, b) ==
  IF Falsy(a) THEN (IF Falsy(b) THEN EmptyDict ELSE b.val)
  ELSE IF Falsy(b) THEN a.val
  ELSE DictUpdate(b.val, a.val)

\* _merge_dict(a, b) of agent/multi/state.py: b or {} when a is falsy, a itself
\* when b is falsy, otherwise a copy of a updated with b.
multi_merge_dict(a, b) ==
  IF Falsy(a) THEN (IF Falsy(b) THEN EmptyDict ELSE b.val)
  ELSE IF Falsy(b) THEN a.val
  ELSE DictUpdate(a.val, b.val)

\* ----------------------------------------- checkpoint store (agent/checkpoint.py)
\* json.dumps(rec): one line of text holding the four fields in the order the
\* record was built with; json.loads(line) reads them back into a dict.
json_dumps(rec) == <<rec.id, rec.ts, rec.node, rec.state>>
json_loads(line) ==
  [id |-> line[1], ts |-> line[2], node |-> line[3], state |-> line[4]]

\* A line that str.strip() leaves empty.
BlankLine == <<>>

\* load_all(): [] when the file does not exist, else every non-blank line parsed.
load_all ==
  IF ~exists THEN <<>>
  ELSE LET lines == SelectSeq(file, LAMBDA l : l # BlankLine)
       IN  [i \in 1..Len(lines) |-> json_loads(lines[i])]

\* RollbackScan with the found record left out of keep (the append after the test).
RECURSIVE RollbackScan_drop_found(_, _, _)
RollbackScan_drop_found(records, checkpoint_id, keep) ==
  IF records = <<>> THEN [found |-> FALSE, keep |-> keep, state |-> None]
  ELSE LET r == Head(records)
       IN  IF r.id = checkpoint_id
           THEN [found |-> TRUE, keep |-> keep, state |-> Some(r.state)]
           ELSE RollbackScan_drop_found(Tail(records), checkpoint_id, Append(keep, r))

\* The for loop of rollback: records are copied to keep up to and including the
\* first one whose id is checkpoint_id.
RECURSIVE RollbackScan(_, _, _)
RollbackScan(records, checkpoint_id, keep) ==
  IF records = <<>> THEN [found |-> FALSE, keep |-> keep, state |-> None]
  ELSE LET r == Head(records)
       IN  IF r.id = checkpoint_id
           THEN [found |-> TRUE, keep |-> Append(keep, r), state |-> Some(r.state)]
           ELSE RollbackScan(Tail(records), checkpoint_id, Append(keep, r))

\* The snapshots and node names the store specification appends.
SnapStates ==
  { [user_input |-> <<"pwd">>, answer |-> "out"],
    [user_input |-> <<"hi">>] }
SnapNodes == {"FINAL", "router"}

\* What an operation leaves behind for the properties to read.
Observe(o, a, r) ==
  /\ op' = o
  /\ arg' = a
  /\ ret' = r
  /\ before' = load_all

\* append with the file opened in mode "w" instead of "a".
append_overwrite(state, node) ==
  /\ Len(file) < MaxLog
  /\ nextId <= MaxIds
  /\ LET rec == [id |-> nextId, ts |-> now, node |-> node, state |-> state]
     IN  /\ file' = <<json_dumps(rec)>>
         /\ exists' = TRUE
         /\ nextId' = nextId + 1
         /\ Observe("append", [state |-> state, node |-> node], Some(rec.id))
  /\ now' = now + 1

\* append taking the record's position in the log as its id.
append_reuse_id(state, node) ==
  /\ Len(file) < MaxLog
  /\ nextId <= MaxIds
  /\ LET rec == [id |-> Len(file) + 1, ts |-> now, node |-> node, state |-> state]
     IN  /\ file' = Append(file, json_dumps(rec))
         /\ exists' = TRUE
         /\ nextId' = nextId + 1
         /\ Observe("append", [state |-> state, node |-> node], Some(rec.id))
  /\ now' = now + 1

\* append(state, node): one more line; the file is created if need be.
append(state, node) ==
  /\ Len(file) < MaxLog
  /\ nextId <= MaxIds
  /\ LET rec == [id |-> nextId, ts |-> now, node |-> node, state |-> state]
     IN  /\ file' = Append(file, json_dumps(rec))
         /\ exists' = TRUE
         /\ nextId' = nextId + 1
         /\ Observe("append", [state |-> state, node |-> node], Some(rec.id))
  /\ now' = now + 1

\* load_all() called by a client.
LoadAllOp ==
  /\ Observe("load_all", None, Some(load_all))
  /\ UNCHANGED <<file, exists, nextId, now>>

\* latest_state(): the state of records[-1], None for an empty log.
latest_state ==
  /\ LET records == load_all
     IN  Observe("latest_state", None,
                 IF records = <<>> THEN None
                 ELSE LET r == PyIndex(records, -1)
                      IN  IF r.tag = "value" THEN Some(r.val.state) ELSE r)
  /\ UNCHANGED <<file, exists, nextId, now>>

\* rollback with the file opened for writing before the scan's result is tested.
rollback_open_first(checkpoint_id) ==
  /\ LET scan == RollbackScan(load_all, checkpoint_id, <<>>)
     IN  IF ~scan.found
         THEN /\ file' = <<>>
              /\ exists' = TRUE
              /\ Observe("rollback", checkpoint_id, None)
         ELSE /\ file' = [i \in 1..Len(scan.keep) |-> json_dumps(scan.keep[i])]
              /\ exists' = TRUE
              /\ Observe("rollback", checkpoint_id, scan.state)
  /\ UNCHANGED <<nextId, now>>

\* rollback(checkpoint_id): not found returns None before the file is opened;
\* found rewrites the file with the kept records and returns the record's state.
rollback(checkpoint_id) ==
  /\ LET scan == RollbackScan(load_all, checkpoint_id, <<>>)
     IN  IF ~scan.found
         THEN /\ Observe("rollback", checkpoint_id, None)
              /\ UNCHANGED <<file, exists>>
         ELSE /\ file' = [i \in 1..Len(scan.keep) |-> json_dumps(scan.keep[i])]
              /\ exists' = TRUE
              /\ Observe("rollback", checkpoint_id, scan.state)
  /\ UNCHANGED <<nextId, now>>

\* The index time_travel reads: max(0, min(index, len(records) - 1)).
ClampIndex_no_floor(index, n) == Min(index, n - 1)

ClampIndex(index, n) == Max(0, Min(index, n - 1))

\* time_travel(index): None for an empty log, else records[clamped].state.
time_travel(index) ==
  /\ LET records == load_all
     IN  Observe("time_travel", index,
                 IF records = <<>> THEN None
                 ELSE LET r == PyIndex(records, ClampIndex(index, Len(records)))
                      IN  IF r.tag = "value" THEN Some(r.val.state) ELSE r)
  /\ UNCHANGED <<file, exists, nextId, now>>

\* Ids and indices the clients of the store pass: id 0 is one uuid4 never gave.
IdArgs == 0..MaxIds
IndexArgs == (0 - MaxLog - 2)..(MaxLog + 2)

StoreInit ==
  /\ file = <<>>
  /\ exists = FALSE
  /\ nextId = 1
  /\ now = 0
  /\ op = "init"
  /\ arg = None
  /\ ret = None
  /\ before = <<>>

ReducerIdle ==
  /\ ma = None
  /\ mb = None
  /\ mc = None

\* No graph is run in the store and reducer specifications.
EngineIdle ==
  /\ graph = "single"
  /\ memory = FALSE
  /\ conf = EmptyDict
  /\ hitl = "absent"
  /\ reqTimes = <<>>
  /\ chan = EmptyDict
  /\ pc = "idle"
  /\ tasks = {}
  /\ writes = EmptyDict
  /\ trig = EmptyDict
  /\ merged = {}
  /\ trail = <<>>
  /\ effects = <<>>
  /\ gov = None
  /\ result = None
  /\ runs = 0
  /\ waiting = EmptyDict
  /\ calls = <<>>

InitStore == StoreInit /\ ReducerIdle /\ EngineIdle

StoreAppend ==
  /\ \E s \in SnapStates, n \in SnapNodes : append(s, n)
  /\ UNCHANGED <<mergeVars, engineVars>>

StoreLoadAll == LoadAllOp /\ UNCHANGED <<mergeVars, engineVars>>

StoreLatest == latest_state /\ UNCHANGED <<mergeVars, engineVars>>

StoreRollback ==
  /\ \E id \in IdArgs : rollback(id)
  /\ UNCHANGED <<mergeVars, engineVars>>

StoreTimeTravel ==
  /\ \E i \in IndexArgs : time_travel(i)
  /\ UNCHANGED <<mergeVars, engineVars>>

NextStore ==
  \/ StoreAppend
  \/ StoreLoadAll
  \/ StoreLatest
  \/ StoreRollback
  \/ StoreTimeTravel

SpecStore == InitStore /\ [][NextStore]_vars

\* ------------------------------------------------------ reducer specification
\* The lists a reducer is applied to: None, or a list of at most MaxLen items.
Items == {"x", "y"}
Lists == UNION { [1..n -> Items] : n \in 0..MaxLen }
OptLists == {None} \cup { Some(l) : l \in Lists }

\* b + c with None read as the empty list.
OptCat(b, c) ==
  (IF b = None THEN <<>> ELSE b.val) \o (IF c = None THEN <<>> ELSE c.val)

InitMerge ==
  /\ StoreInit
  /\ EngineIdle
  /\ ma \in OptLists
  /\ mb \in OptLists
  /\ mc \in OptLists

\* Both sides of the associativity law, computed by the reducers.
MergeLists ==
  /\ op = "init"
  /\ op' = "merge_list"
  /\ ret' = [left |-> _merge_list(Some(_merge_list(ma, mb)), mc),
             right |-> _merge_list(ma, Some(OptCat(mb, mc))),
             add_left |-> LET r == operator_add(ma, mb)
                          IN  IF r.tag = "raise" THEN r ELSE operator_add(r, mc),
             add_right |-> operator_add(ma, IF mb = None \/ mc = None THEN None
                                            ELSE Some(mb.val \o mc.val))]
  /\ UNCHANGED <<storeVars, arg, before, mergeVars, engineVars>>

NextMerge == MergeLists

SpecMerge == InitMerge /\ [][NextMerge]_vars

\* ============================================================ the graph engine
\* Python dict access.
Has(d, k) == k \in DOMAIN d
Get(d, k) == IF k \in DOMAIN d THEN Some(d[k]) ELSE None
Put(d, k, v) == (k :> v) @@ d

\* A text is a sequence of words; "w in text" is read word by word.
HasWord(text, w) == \E i \in 1..Len(text) : text[i] = w
StartsWith(text, w) == Len(text) >= 1 /\ text[1] = w

\* ------------------------------------------- schemas (state.py, multi/state.py)
SingleListFields == {"retrieved_docs", "tool_results"}
SingleDictFields == {"parallel_parts", "meta"}
SingleSchema ==
  {"user_input", "route", "answer"} \cup SingleListFields \cup SingleDictFields

MultiListFields == {"tool_results", "used_tools", "tool_errors", "trace"}
MultiDictFields == {"timings", "artifacts", "decisions", "metrics"}
MultiSchema ==
  {"user_input", "original_user_input", "route", "answer", "reviewed_answer",
   "executor_answer", "draft_answer", "plan", "planned_tools", "retrieved_docs",
   "memory_query", "memory_docs", "memory_used", "retrieval_cache_hit",
   "retrieval_latency_s", "redacted", "moderation", "hitl_approved", "dry_run",
   "halt", "audit", "rolled_back", "content_hash", "error", "retry_count",
   "max_retries", "meta", "metadata"} \cup MultiListFields \cup MultiDictFields

Schema(g) == IF g = "single" THEN SingleSchema ELSE MultiSchema
ListFields(g) == IF g = "single" THEN SingleListFields ELSE MultiListFields
DictFields(g) == IF g = "single" THEN SingleDictFields ELSE MultiDictFields

\* StateGraph(schema): a field annotated with a reducer gets an aggregating
\* channel that starts at the empty value of its type; the other fields get a
\* last-value channel that starts without a value.
InitialChannels(g) ==
  [f \in ListFields(g) \cup DictFields(g) |->
     IF f \in ListFields(g) THEN <<>> ELSE EmptyDict]

\* Only the keys of the schema are written; other keys a node returns are ignored.
SchemaFilter(g, upd) == [f \in DOMAIN upd \cap Schema(g) |-> upd[f]]

\* One write to one channel.
ReduceField(g, f, prev, new) ==
  IF f \in ListFields(g)
  THEN (IF g = "single" THEN _merge_list(Some(prev), Some(new))
        ELSE operator_add(Some(prev), Some(new)).val)
  ELSE IF f \in DictFields(g)
  THEN (IF g = "single" THEN _merge_dict(Some(prev), Some(new))
        ELSE multi_merge_dict(Some(prev), Some(new)))
  ELSE new

\* The writes of one task applied to the channels.
ApplyUpdate(g, ch, upd) ==
  [f \in DOMAIN ch \cup DOMAIN upd |->
     IF f \notin DOMAIN upd THEN ch[f]
     ELSE IF f \in DOMAIN ch THEN ReduceField(g, f, ch[f], upd[f])
     ELSE upd[f]]

RECURSIVE ApplyUpdates(_, _, _)
ApplyUpdates(g, ch, upds) ==
  IF upds = <<>> THEN ch
  ELSE ApplyUpdates(g, ApplyUpdate(g, ch, Head(upds)), Tail(upds))

\* A last-value channel takes one write per superstep: two tasks of one
\* superstep writing it is an InvalidUpdateError.
WriteConflict(g, ws) ==
  \E n1 \in DOMAIN ws, n2 \in DOMAIN ws :
    /\ n1 # n2
    /\ \E f \in DOMAIN ws[n1] \cap DOMAIN ws[n2] :
         f \notin ListFields(g) \cup DictFields(g)

\* The writes of a superstep are applied in the order of the tasks' names.
SingleNodeOrder ==
  <<"branch_citations", "branch_summary", "direct_answer", "merge_parallel",
    "rag_generate", "rag_retrieve", "router", "tool_shell">>
MultiNodeOrder ==
  <<"audit", "executor", "governance", "planner", "researcher", "reviewer",
    "tool_exec">>
NodeOrder(g) == IF g = "single" THEN SingleNodeOrder ELSE MultiNodeOrder

\* The writes applied from the last name to the first.
OrderedWrites_reversed(g, ws) ==
  LET names == SelectSeq(NodeOrder(g), LAMBDA n : n \in DOMAIN ws)
  IN  [i \in 1..Len(names) |-> ws[names[Len(names) + 1 - i]]]

OrderedWrites(g, ws) ==
  LET names == SelectSeq(NodeOrder(g), LAMBDA n : n \in DOMAIN ws)
  IN  [i \in 1..Len(names) |-> ws[names[i]]]

\* ------------------------------------------------------- graph.py: the builder
SingleEntry == "router"
SingleEdges ==
  { <<"direct_answer", "END">>, <<"tool_shell", "END">>,
    <<"rag_retrieve", "branch_summary">>, <<"rag_retrieve", "branch_citations">>,
    <<"branch_summary", "merge_parallel">>,
    <<"branch_citations", "merge_parallel">>,
    <<"merge_parallel", "rag_generate">>, <<"rag_generate", "END">> }

\* _route_decider(state)
_route_decider(state) ==
  LET r == Get(state, "route")
  IN  IF r = Some("direct") THEN "direct_answer"
      ELSE IF r = Some("rag") THEN "rag_retrieve"
      ELSE "tool_shell"

\* The mapping given to add_conditional_edges.
RouteTable ==
  [direct_answer |-> "direct_answer", rag_retrieve |-> "rag_retrieve",
   tool_shell |-> "tool_shell"]

\* ------------------------------------------- multi/graph_multi.py: the builder
MultiEntry == "planner"
\* The edges with one more from governance straight to the executor.
MultiEdges_shortcut ==
  { <<"planner", "governance">>, <<"governance", "researcher">>,
    <<"governance", "tool_exec">>, <<"governance", "executor">>,
    <<"researcher", "executor">>, <<"tool_exec", "executor">>,
    <<"executor", "audit">>, <<"audit", "reviewer">>, <<"reviewer", "END">> }

MultiEdges ==
  { <<"planner", "governance">>, <<"governance", "researcher">>,
    <<"governance", "tool_exec">>, <<"researcher", "executor">>,
    <<"tool_exec", "executor">>, <<"executor", "audit">>,
    <<"audit", "reviewer">>, <<"reviewer", "END">> }

\* The nodes in the order the edges chain them, the two targets of governance
\* in the order their edges are added.
PipelineOrder ==
  <<"planner", "governance", "researcher", "tool_exec", "executor", "audit",
    "reviewer">>

Entry(g) == IF g = "single" THEN SingleEntry ELSE MultiEntry
Edges(g) == IF g = "single" THEN SingleEdges ELSE MultiEdges

\* Targets with the routing function reading the state the router was given.
Targets_stale(g, n, ch, upd) ==
  { e[2] : e \in { x \in Edges(g) : x[1] = n /\ x[2] # "END" } }
  \cup (IF g = "single" /\ n = "router"
        THEN {RouteTable[_route_decider(ch)]}
        ELSE {})

\* The nodes a finished node triggers: the targets of its edges, and for the
\* router the target its routing function names on the state with the router's
\* own writes applied.
Targets(g, n, ch, upd) ==
  { e[2] : e \in { x \in Edges(g) : x[1] = n /\ x[2] # "END" } }
  \cup (IF g = "single" /\ n = "router"
        THEN {RouteTable[_route_decider(ApplyUpdate(g, ch, SchemaFilter(g, upd)))]}
        ELSE {})

\* -------------------------------------------------------- what a node returns
\* A node's outcome: the partial state it returns and the requests it made.
\* An effect names the node, the kind of request, and whether the state the
\* node was given carried a halt marker.
Truthy(state, k) == k \in DOMAIN state /\ state[k] # ""
Effect(n, kind, state) ==
  [node |-> n, kind |-> kind, halted |-> Has(state, "halt")]
Out(upd, eff) == [upd |-> upd, eff |-> eff]

\* What the model and the tool server answer.  Every call's answer is its own
\* text: it names the call site and the run.
OLLAMA_CHAT_MODEL == "llama3.2:1b"
LlmReply(n) == "llm:" \o n \o "#" \o ToString(runs)
DocSets == { <<>>, <<[raw |-> "d1"], [raw |-> "d2"]>> }
ShellResults == {"", "out"}

\* ------------------------------------------------------ nodes of agent/nodes/
\* route_node
route_node(state) ==
  LET user_input == state.user_input
      route == IF \/ HasWord(user_input, "shell")
                  \/ (StartsWith(user_input, "ls") /\ Len(user_input) > 1)
                  \/ StartsWith(user_input, "pwd")
               THEN "tool"
               ELSE IF \/ HasWord(user_input, "document")
                       \/ HasWord(user_input, "pdf")
                       \/ HasWord(user_input, "according to")
               THEN "rag"
               ELSE "direct"
  IN  Out([route |-> route, meta |-> [routed_by |-> "router_node"]], <<>>)

\* direct_answer
direct_answer(state, reply) ==
  Out([answer |-> reply, meta |-> [direct_model |-> OLLAMA_CHAT_MODEL]],
      <<Effect("direct_answer", "llm", state)>>)

\* rag_retrieve
rag_retrieve(state, docs) ==
  Out([retrieved_docs |-> docs, meta |-> [rag_hits |-> Len(docs)]],
      <<Effect("rag_retrieve", "rag_search", state)>>)

\* rag_generate
rag_generate(state, reply) ==
  Out([answer |-> reply, meta |-> [rag_model |-> OLLAMA_CHAT_MODEL]],
      <<Effect("rag_generate", "llm", state)>>)

\* tool_shell: the command is the input without a leading "shell ".
tool_shell(state, shell_result) ==
  LET user == state.user_input
      cmd == IF StartsWith(user, "shell") /\ Len(user) > 1 THEN Tail(user) ELSE user
  IN  Out([tool_results |-> <<[command |-> cmd, output |-> shell_result]>>,
           answer |-> shell_result],
          <<Effect("tool_shell", "shell", state)>>)

\* branch_summary
branch_summary(state, reply) ==
  Out([parallel_parts |-> [summary |-> reply]],
      <<Effect("branch_summary", "llm", state)>>)

\* branch_citations
branch_citations(state, reply) ==
  Out([parallel_parts |-> [citations |-> reply]],
      <<Effect("branch_citations", "llm", state)>>)

\* merge_parallel
merge_parallel(state) ==
  LET parts == IF Has(state, "parallel_parts") THEN state.parallel_parts
               ELSE EmptyDict
      base == IF Truthy(state, "answer") THEN state.answer
              ELSE IF Has(parts, "summary") THEN parts.summary
              ELSE "(no summary)"
      cits == IF Has(parts, "citations") THEN parts.citations ELSE "(none)"
  IN  Out([answer |-> base \o "\n\nCitations:\n" \o cits], <<>>)

\* ------------------------------------------- agent/multi/nodes/governance.py
\* The settings read from the environment when the modules are imported.
RATE_LIMIT_DEFAULT == 30
MAX_TRACE_DEFAULT == 500
ALLOWED_TOOLS_no_fetch == {"search", "code_exec"}
ALLOWED_TOOLS == {"search", "code_exec", "fetch"}
DefaultConf ==
  [REQUIRE_MODERATION |-> TRUE, ENABLE_HITL |-> TRUE, DRY_RUN |-> FALSE,
   ENABLE_TRACE |-> TRUE, RATE_LIMIT_PER_MIN |-> RATE_LIMIT_DEFAULT,
   MAX_TRACE_LEN |-> MAX_TRACE_DEFAULT]

\* PII_PATTERNS, word by word: the words the e-mail and the phone pattern match.
EmailWords == {"a@b.co"}
PhoneWords == {"555-123-4567"}
PolicyTerms == {"terror", "self-harm", "bomb"}

\* _moderate(text)
_moderate(text) ==
  LET flagged == \E k \in PolicyTerms : HasWord(text, k)
  IN  [flagged |-> flagged]

\* _redact with the phone pattern alone.
_redact_phone_only(text) ==
  [i \in 1..Len(text) |-> IF text[i] \in PhoneWords THEN "<phone>" ELSE text[i]]

\* _redact(text): the e-mail pattern is substituted first, then the phone one.
_redact(text) ==
  LET t1 == [i \in 1..Len(text) |->
               IF text[i] \in EmailWords THEN "<email>" ELSE text[i]]
  IN  [i \in 1..Len(t1) |-> IF t1[i] \in PhoneWords THEN "<phone>" ELSE t1[i]]

\* The eviction loop of _rate_limit: timestamps older than WINDOW are popped
\* from the left.
WINDOW == 60
RECURSIVE Evict(_, _)
Evict(times, t) ==
  IF times # <<>> /\ t - Head(times) > WINDOW THEN Evict(Tail(times), t)
  ELSE times

\* _rate_limit(): the clock is read, the window evicted, and the request is
\* rejected when the window is full, else recorded.
_rate_limit_no_evict(times, t, limit) ==
  IF Len(times) >= limit THEN [ok |-> FALSE, limit |-> limit, times |-> times]
  ELSE [ok |-> TRUE, limit |-> limit, times |-> Append(times, t)]

\* _rate_limit rejecting only once the window holds more than the ceiling.
_rate_limit_off_by_one(times, t, limit) ==
  LET kept == Evict(times, t)
  IN  IF Len(kept) > limit
      THEN [ok |-> FALSE, limit |-> limit, times |-> kept]
      ELSE [ok |-> TRUE, limit |-> limit, times |-> Append(kept, t)]

\* _rate_limit accepting without recording the request.
_rate_limit_no_record(times, t, limit) ==
  LET kept == Evict(times, t)
  IN  [ok |-> Len(kept) < limit, limit |-> limit, times |-> kept]

\* _rate_limit with "if" in place of "while": one old timestamp is popped.
_rate_limit_evict_one(times, t, limit) ==
  LET kept == IF times # <<>> /\ t - Head(times) > WINDOW THEN Tail(times)
              ELSE times
  IN  IF Len(kept) >= limit
      THEN [ok |-> FALSE, limit |-> limit, times |-> kept]
      ELSE [ok |-> TRUE, limit |-> limit, times |-> Append(kept, t)]

_rate_limit(times, t, limit) ==
  LET kept == Evict(times, t)
  IN  IF Len(kept) >= limit
      THEN [ok |-> FALSE, limit |-> limit, times |-> kept]
      ELSE [ok |-> TRUE, limit |-> limit, times |-> Append(kept, t)]

\* _hitl_approval(state): the approval file's content decides when the file
\* exists; without the file the answer is True.
_hitl_approval(flag_file) ==
  IF flag_file # "absent" THEN flag_file \in {"y", "yes", "approve", "approved"}
  ELSE TRUE

\* str(list) of a list of names, as an f-string prints it.
RECURSIVE PyReprTail(_)
PyReprTail(names) ==
  IF names = <<>> THEN ""
  ELSE ", '" \o Head(names) \o "'" \o PyReprTail(Tail(names))
PyRepr(names) ==
  IF names = <<>> THEN "[]"
  ELSE "['" \o Head(names) \o "'" \o PyReprTail(Tail(names)) \o "]"

\* A gate that halts writes the marker without the message.
Halt_marker_only(st, msg, reason) == Put(st, "halt", reason)

\* What a gate that halts writes before it returns: the message, then the marker.
Halt(st, msg, reason) == Put(Put(st, "reviewed_answer", msg), "halt", reason)

\* governance_node(state): the gates in their order.  It writes into the dict
\* it was given and returns that dict; gate tells which return was taken.
governance_node(state, times, t, cf, flag_file) ==
  LET user_input == IF Has(state, "user_input") THEN state.user_input ELSE <<>>
      s1 == Put(state, "original_user_input", user_input)
      flagged == IF cf.REQUIRE_MODERATION THEN _moderate(user_input).flagged
                 ELSE FALSE
      redacted == _redact(user_input)
      s2 == IF redacted # user_input THEN Put(s1, "redacted", TRUE) ELSE s1
      s3 == Put(s2, "user_input", redacted)
      rl == _rate_limit(times, t, cf.RATE_LIMIT_PER_MIN)
      planned_tools == IF Has(state, "planned_tools") THEN state.planned_tools
                       ELSE <<>>
      disallowed == SelectSeq(planned_tools, LAMBDA x : x \notin ALLOWED_TOOLS)
  IN  IF flagged
      THEN [state |-> Halt(s1, "Request blocked by moderation.", "moderation_block"),
            times |-> times, gate |-> "moderation"]
      ELSE IF ~rl.ok
      THEN [state |-> Halt(s3, "Rate limit exceeded (" \o ToString(rl.limit)
                                 \o "/min). Retry later.", "rate_limited"),
            times |-> rl.times, gate |-> "rate_limit"]
      ELSE IF disallowed # <<>>
      THEN [state |-> Halt(s3, "Disallowed tools: " \o PyRepr(disallowed),
                           "tool_block"),
            times |-> rl.times, gate |-> "allow_list"]
      ELSE IF cf.DRY_RUN
      THEN [state |-> Halt(Put(s3, "dry_run", TRUE),
                           "Dry-run OK. Planned tools: " \o PyRepr(planned_tools),
                           "dry_run_complete"),
            times |-> rl.times, gate |-> "dry_run"]
      ELSE IF cf.ENABLE_HITL /\ ~_hitl_approval(flag_file)
      THEN [state |-> Halt(s3, "Awaiting human approval.", "hitl_pending"),
            times |-> rl.times, gate |-> "hitl"]
      ELSE [state |-> IF cf.ENABLE_HITL THEN Put(s3, "hitl_approved", TRUE) ELSE s3,
            times |-> rl.times, gate |-> "pass"]

\* ------------------------------------------------ the other nodes of multi/nodes
\* What the planner's model answers: lines "task | needs_rag".
PlannerReplies ==
  { << <<"greet", "|", "false">> >>,
    << <<"look", "up", "|", "true">>, <<"answer", "|", "false">> >> }

\* planner_node
planner_node(state, resp) ==
  LET task_lines == SelectSeq(resp, LAMBDA line : line # <<>>)
      needs_rag == \E i \in 1..Len(task_lines) :
                     HasWord(task_lines[i], "true") \/ HasWord(task_lines[i], "yes")
  IN  Out([plan |-> resp, tasks |-> task_lines,
           route |-> IF needs_rag THEN "rag" ELSE "direct",
           meta |-> [planner_model |-> OLLAMA_CHAT_MODEL]],
          <<Effect("planner", "llm", state)>>)

\* researcher_node
researcher_node(state, docs) ==
  IF Get(state, "route") # Some("rag") THEN Out(EmptyDict, <<>>)
  ELSE Out([retrieved_docs |-> docs, meta |-> [research_hits |-> Len(docs)]],
           <<Effect("researcher", "rag_search", state)>>)

\* tool_executor_node: one shell request per task that names "shell".
tool_executor_node(state, shell_result) ==
  LET task_lines == IF Has(state, "tasks") THEN state.tasks ELSE <<>>
      shell_tasks == SelectSeq(task_lines, LAMBDA x : HasWord(x, "shell"))
      outputs == [i \in 1..Len(shell_tasks) |->
                    [task |-> shell_tasks[i], command |-> Tail(shell_tasks[i]),
                     output |-> shell_result]]
  IN  IF outputs = <<>> THEN Out(EmptyDict, <<>>)
      ELSE Out([tool_results |-> outputs,
                meta |-> [tool_exec_count |-> Len(outputs)]],
               [i \in 1..Len(outputs) |-> Effect("tool_exec", "shell", state)])

\* executor_node
executor_node(state, reply) ==
  Out([draft_answer |-> reply, meta |-> [executor_model |-> OLLAMA_CHAT_MODEL]],
      <<Effect("executor", "llm", state)>>)

\* _post_validate(state): the answers too long or holding an exec block.
LongAnswers == {"<answer of 8001 characters>"}
ExecAnswers == {"<answer holding an exec block>"}
_post_validate(state) ==
  LET answer == IF Truthy(state, "answer") THEN state.answer
                ELSE IF Truthy(state, "executor_answer") THEN state.executor_answer
                ELSE ""
      issues == (IF answer \in LongAnswers THEN <<"answer_too_long">> ELSE <<>>)
                \o (IF answer \in ExecAnswers THEN <<"unescaped_code_block">>
                    ELSE <<>>)
  IN  [issues |-> issues, valid |-> issues = <<>>]

\* audit_node: it writes into the dict it was given and returns that dict.
audit_node(state) ==
  IF Truthy(state, "halt") THEN Out(state, <<>>)
  ELSE IF Has(state, "dry_run") /\ state.dry_run THEN Out(state, <<>>)
  ELSE LET validation == _post_validate(state)
           s1 == Put(state, "audit", validation)
       IN  IF ~validation.valid
           THEN Out(Put(Put(Put(s1, "rolled_back", TRUE), "reviewed_answer",
                            "Response held for review. Issues: "
                              \o PyRepr(validation.issues)),
                        "halt", "post_validation_fail"), <<>>)
           ELSE Out(Put(s1, "content_hash",
                        "sha256(" \o (IF Has(state, "answer") THEN state.answer
                                      ELSE "null") \o ")"), <<>>)

\* What the reviewer's model answers: the parts of its text.
ReviewerReplies(n) ==
  { <<"ANSWER:", LlmReply(n), "CRITIQUE:", "notes">> }

\* reviewer_node: the text before "CRITIQUE:" without "ANSWER:" is the answer.
RECURSIVE BeforeCritique(_)
BeforeCritique(parts) ==
  IF parts = <<>> \/ Head(parts) = "CRITIQUE:" THEN ""
  ELSE (IF Head(parts) = "ANSWER:" THEN "" ELSE Head(parts))
       \o BeforeCritique(Tail(parts))
RECURSIVE JoinParts(_)
JoinParts(parts) ==
  IF parts = <<>> THEN "" ELSE Head(parts) \o JoinParts(Tail(parts))
RECURSIVE AfterCritique(_)
AfterCritique(parts) ==
  IF parts = <<>> THEN ""
  ELSE IF Head(parts) = "CRITIQUE:" THEN JoinParts(Tail(parts))
  ELSE AfterCritique(Tail(parts))

reviewer_node(state, resp) ==
  LET split == HasWord(resp, "CRITIQUE:")
      answer == IF split THEN BeforeCritique(resp) ELSE JoinParts(resp)
      critique == IF split THEN AfterCritique(resp) ELSE ""
  IN  Out([reviewed_answer |-> answer, critique |-> critique,
           meta |-> [review_model |-> OLLAMA_CHAT_MODEL]],
          <<Effect("reviewer", "llm", state)>>)

\* ------------------------------------------------ multi/instrumentation.py
\* The duration a node is measured to take.
Duration == 0

\* A wrapper that returns the timings and the trace entry without fn's fields.
instrument_additive_only(node_name, state, out, t, cf) ==
  IF ~cf.ENABLE_TRACE THEN out
  ELSE Out([timings |-> (node_name :> Duration),
            trace |-> <<[node |-> node_name, t |-> t, dt |-> Duration,
                         halt |-> Get(out.upd, "halt")]>>], out.eff)

\* A wrapper that also emits the decisions it collects for the governance node.
instrument_emits_decisions(node_name, state, out, t, cf) ==
  IF ~cf.ENABLE_TRACE THEN out
  ELSE LET r1 == Put(out.upd, "timings", (node_name :> Duration))
           r2 == IF node_name = "governance"
                 THEN Put(r1, "decisions",
                          [governance |-> [halt |-> Get(out.upd, "halt")]])
                 ELSE r1
       IN  Out(r2, out.eff)

\* instrument(node_name, fn)(state): fn's result with the timings entry, and
\* the trace entry while the state's trace is shorter than MAX_TRACE_LEN.
instrument(node_name, state, out, t, cf) ==
  IF ~cf.ENABLE_TRACE THEN out
  ELSE LET existing_trace_len == IF Has(state, "trace") THEN Len(state.trace) ELSE 0
           r1 == Put(out.upd, "timings", (node_name :> Duration))
           entry == [node |-> node_name, t |-> t, dt |-> Duration,
                     halt |-> Get(out.upd, "halt")]
           r2 == IF existing_trace_len < cf.MAX_TRACE_LEN
                 THEN Put(r1, "trace", <<entry>>) ELSE r1
       IN  Out(r2, out.eff)

\* ------------------------------------------------------------ engine: one run
\* The inputs the callers pass.
SingleInputs == { <<"hi">>, <<"pwd">>, <<"shell", "ls">>, <<"read", "pdf">> }

\* A node of the current superstep runs to completion on the state the
\* superstep started from; its writes wait for the end of the superstep.
Complete(n, out) ==
  /\ pc = "running"
  /\ n \in tasks
  /\ tasks' = tasks \ {n}
  /\ writes' = (n :> SchemaFilter(graph, out.upd)) @@ writes
  /\ trig' = (n :> Targets(graph, n, chan, out.upd)) @@ trig
  /\ trail' = Append(trail, n)
  /\ effects' = effects \o out.eff
  /\ UNCHANGED <<waiting, calls, graph, memory, conf, hitl, chan, pc, merged, result, runs>>
  /\ UNCHANGED <<storeVars, obsVars, mergeVars>>

Router ==
  /\ Complete("router", route_node(chan))
  /\ UNCHANGED <<gov, reqTimes>>

DirectAnswer ==
  /\ Complete("direct_answer", direct_answer(chan, LlmReply("direct_answer")))
  /\ UNCHANGED <<gov, reqTimes>>

RagRetrieve ==
  /\ \E docs \in DocSets : Complete("rag_retrieve", rag_retrieve(chan, docs))
  /\ UNCHANGED <<gov, reqTimes>>

RagGenerate ==
  /\ Complete("rag_generate", rag_generate(chan, LlmReply("rag_generate")))
  /\ UNCHANGED <<gov, reqTimes>>

ToolShell ==
  /\ \E r \in ShellResults : Complete("tool_shell", tool_shell(chan, r))
  /\ UNCHANGED <<gov, reqTimes>>

BranchSummary ==
  /\ Complete("branch_summary", branch_summary(chan, LlmReply("branch_summary")))
  /\ UNCHANGED <<gov, reqTimes>>

BranchCitations ==
  /\ Complete("branch_citations",
              branch_citations(chan, LlmReply("branch_citations")))
  /\ UNCHANGED <<gov, reqTimes>>

MergeParallel ==
  /\ Complete("merge_parallel", merge_parallel(chan))
  /\ UNCHANGED <<gov, reqTimes>>

\* The nodes of the multi-agent graph, each registered wrapped by instrument.
Planner ==
  /\ \E resp \in PlannerReplies :
       Complete("planner",
                instrument("planner", chan, planner_node(chan, resp), now, conf))
  /\ UNCHANGED <<gov, reqTimes>>

Governance ==
  LET g == governance_node(chan, reqTimes, now, conf, hitl)
  IN  /\ Complete("governance",
                  instrument("governance", chan, Out(g.state, <<>>), now, conf))
      /\ reqTimes' = g.times
      /\ gov' = Some([gate |-> g.gate,
                      halt |-> Get(g.state, "halt"),
                      msg |-> Get(g.state, "reviewed_answer")])

Researcher ==
  /\ \E docs \in DocSets :
       Complete("researcher",
                instrument("researcher", chan, researcher_node(chan, docs), now, conf))
  /\ UNCHANGED <<gov, reqTimes>>

ToolExec ==
  /\ \E r \in ShellResults :
       Complete("tool_exec",
                instrument("tool_exec", chan, tool_executor_node(chan, r), now, conf))
  /\ UNCHANGED <<gov, reqTimes>>

Executor ==
  /\ Complete("executor",
              instrument("executor", chan,
                         executor_node(chan, LlmReply("executor")), now, conf))
  /\ UNCHANGED <<gov, reqTimes>>

Audit ==
  /\ Complete("audit", instrument("audit", chan, audit_node(chan), now, conf))
  /\ UNCHANGED <<gov, reqTimes>>

Reviewer ==
  /\ \E resp \in ReviewerReplies("reviewer") :
       Complete("reviewer",
                instrument("reviewer", chan, reviewer_node(chan, resp), now, conf))
  /\ UNCHANGED <<gov, reqTimes>>

\* The nodes whose request is not inside a try block, with what the request
\* raises when the server cannot be reached.  researcher_node makes its
\* request only on the rag route; tool_executor_node catches every exception.
LlmNodes ==
  {"direct_answer", "rag_generate", "branch_summary", "branch_citations",
   "planner", "executor", "reviewer"}
RequestNodes == {"rag_retrieve", "tool_shell", "researcher"}
Raises(n, state) ==
  IF n \in LlmNodes THEN Some("httpx.ConnectError")
  ELSE IF n \in RequestNodes /\ (n = "researcher" => Get(state, "route") = Some("rag"))
  THEN Some("requests.ConnectionError")
  ELSE None

\* A node raises: graph.invoke raises what the node raised, the superstep's
\* writes are not applied, and the statements after graph.invoke do not run.
NodeRaises ==
  /\ pc = "running"
  /\ \E n \in tasks :
       /\ Raises(n, chan) # None
       /\ result' = Raise(Raises(n, chan).val)
       /\ effects' = Append(effects,
                            Effect(n, IF n \in LlmNodes THEN "llm" ELSE "rag_search",
                                   chan))
       /\ op' = "raise"
       /\ arg' = n
       /\ ret' = Raise(Raises(n, chan).val)
       /\ before' = load_all
  /\ pc' = "idle"
  /\ tasks' = {}
  /\ writes' = EmptyDict
  /\ trig' = EmptyDict
  /\ UNCHANGED <<waiting, calls, graph, memory, conf, hitl, reqTimes, chan, merged, trail, gov, runs>>
  /\ UNCHANGED <<storeVars, mergeVars>>

\* The superstep ends when every one of its tasks has completed.
StepBarrier_first_done == DOMAIN writes # {}

StepBarrier == tasks = {}

\* End of a superstep: the writes are applied in task order, and the triggered
\* nodes form the next superstep; with none the graph has reached END.
EndStep ==
  /\ pc = "running"
  /\ StepBarrier
  /\ DOMAIN writes # {}
  /\ IF WriteConflict(graph, writes)
     THEN /\ pc' = "idle"
          /\ result' = Raise("InvalidUpdateError")
          /\ tasks' = {}
          /\ UNCHANGED <<chan, merged>>
     ELSE /\ chan' = ApplyUpdates(graph, chan, OrderedWrites(graph, writes))
          /\ merged' = merged \cup DOMAIN writes
          /\ tasks' = tasks \cup UNION { trig[n] : n \in DOMAIN trig }
          /\ pc' = IF tasks' = {} THEN "invoked" ELSE "running"
          /\ UNCHANGED result
  /\ writes' = EmptyDict
  /\ trig' = EmptyDict
  /\ UNCHANGED <<waiting, calls, graph, memory, conf, hitl, reqTimes, trail, effects, gov, runs>>
  /\ UNCHANGED <<storeVars, obsVars, mergeVars>>

\* graph.invoke(input): with a checkpointer the thread's channels are kept from
\* the previous run and the input is written over them; without one the run
\* starts from the schema's initial channels.
Invoke(input) ==
  /\ chan' = ApplyUpdate(graph,
                         IF memory THEN chan ELSE InitialChannels(graph),
                         [user_input |-> input])
  /\ tasks' = {Entry(graph)}
  /\ writes' = EmptyDict
  /\ trig' = EmptyDict
  /\ merged' = {}
  /\ trail' = <<>>
  /\ effects' = <<>>
  /\ gov' = None
  /\ pc' = "running"

\* run_agent(user_input), up to the call of graph.invoke.
run_agent(user_input) ==
  /\ graph = "single"
  /\ pc = "idle"
  /\ runs < MaxRuns
  /\ Len(file) < MaxLog
  /\ nextId <= MaxIds
  /\ Invoke(user_input)
  /\ result' = None
  /\ Observe("invoke", user_input, None)
  /\ runs' = runs + 1
  /\ UNCHANGED <<waiting, calls, graph, memory, conf, hitl, reqTimes>>
  /\ UNCHANGED <<storeVars, mergeVars>>

RunAgent == \E u \in SingleInputs : run_agent(u)

\* _validate_input(user_input): an empty input is a ValueError.
MultiInputs == { <<>>, <<"hi">>, <<"make", "bomb">>, <<"mail", "a@b.co">> }
\* SAFE_INPUT_REGEX.match(text), the pattern ^[\s\S]{1,5000}$ on a text given
\* unit by unit: the class matches any unit, 1 to 5000 times, and "$" matches
\* at the end of the text or just before a newline that ends it.
MAX_INPUT_CHARS == 5000
SAFE_INPUT_REGEX(text) ==
  \E k \in 1..MAX_INPUT_CHARS :
    /\ k <= Len(text)
    /\ \/ k = Len(text)
       \/ k = Len(text) - 1 /\ text[Len(text)] = "\n"
_validate_input(user_input) ==
  IF user_input = <<>> \/ ~SAFE_INPUT_REGEX(user_input) THEN Raise("ValueError")
  ELSE Some(user_input)

\* run_multi(user_input), up to the call of graph_multi.invoke.
run_multi(user_input) ==
  /\ graph = "multi"
  /\ pc = "idle"
  /\ runs < MaxRuns
  /\ Len(file) < MaxLog
  /\ nextId <= MaxIds
  /\ runs' = runs + 1
  /\ LET v == _validate_input(user_input)
     IN  IF v.tag = "raise"
         THEN /\ result' = v
              /\ Observe("invalid", user_input, v)
              /\ UNCHANGED <<chan, tasks, writes, trig, merged, trail, effects,
                             gov, pc>>
         ELSE /\ Invoke(v.val)
              /\ result' = None
              /\ Observe("invoke", v.val, None)
  /\ UNCHANGED <<waiting, calls, graph, memory, conf, hitl, reqTimes>>
  /\ UNCHANGED <<storeVars, mergeVars>>

RunMulti == \E u \in MultiInputs : run_multi(u)

\* More than the limiter's window of time passes between two runs; the step
\* is taken when the window is full, where it changes what the limiter says.
Tick ==
  /\ pc = "idle"
  /\ runs >= 1
  /\ now + TickStep <= MaxTime + runs
  /\ Len(reqTimes) >= conf.RATE_LIMIT_PER_MIN
  /\ now' = now + TickStep
  /\ UNCHANGED <<file, exists, nextId, obsVars, mergeVars, engineVars>>

\* Finish with the record named after the last node that completed.
Finish_last_node ==
  /\ pc = "invoked"
  /\ append(chan, trail[Len(trail)])
  /\ result' = Some(chan)
  /\ pc' = "idle"
  /\ UNCHANGED <<waiting, calls, graph, memory, conf, hitl, reqTimes, chan, tasks, writes, trig,
                 merged, trail, effects, gov, runs>>
  /\ UNCHANGED mergeVars

\* The tail of run_agent and of run_multi: graph.invoke has returned the final
\* state; it is appended to the log as node "FINAL" and returned.
Finish ==
  /\ pc = "invoked"
  /\ append(chan, "FINAL")
  /\ result' = Some(chan)
  /\ pc' = "idle"
  /\ UNCHANGED <<waiting, calls, graph, memory, conf, hitl, reqTimes, chan, tasks, writes, trig,
                 merged, trail, effects, gov, runs>>
  /\ UNCHANGED mergeVars

\* ------------------------------------------------- graph.py: run_agent_stream
\* An event of graph.astream_events as run_agent_stream reads it: its type,
\* the state and the node name it carries, and the chunk or delta of its data.
MaxEvents == 3
Part(content, text) == [content |-> content, text |-> text]
Event(etype, name, state, chunk, delta) ==
  [etype |-> etype, name |-> name, state |-> state, chunk |-> chunk,
   delta |-> delta]
EventKinds ==
  { Event(None, None, None, Some(Part(Some("u"), None)), None),
    Event(Some("on_chat_model_stream"), Some("llm"), None,
          Some(Part(Some("a"), None)), None),
    Event(Some("on_chat_model_stream"), Some("llm"), None,
          Some(Part(Some(""), Some("b"))), None),
    Event(Some("on_chat_model_stream"), Some("llm"), None,
          Some(Part(Some(""), None)), None),
    Event(Some("on_llm_stream"), None, None, None,
          Some(Part(None, Some("d")))),
    Event(Some("on_chain_end"), Some("tool_shell"),
          Some([user_input |-> <<"pwd">>, answer |-> "out"]), None, None),
    Event(Some("on_chain_end"), None,
          Some([user_input |-> <<"pwd">>, answer |-> ""]), None, None),
    Event(Some("on_chain_end"), Some("router"),
          Some([user_input |-> <<"pwd">>, route |-> "tool"]), None, None),
    Event(Some("on_chain_start"), Some("merge_parallel"),
          Some([user_input |-> <<"pwd">>, answer |-> "early"]), None, None) }
EventSeqs == UNION { [1..n -> EventKinds] : n \in 0..MaxEvents }

\* Python's truth of an optional text, and "a or b".
OptTruthy(x) == x # None /\ x.val # ""
PyOr(a, b) == IF OptTruthy(a) THEN a ELSE b

\* The text of an event's chunk, or else of its delta.
ChunkText(ev) ==
  IF ev.chunk # None THEN PyOr(ev.chunk.val.content, ev.chunk.val.text)
  ELSE IF ev.delta # None THEN PyOr(ev.delta.val.content, ev.delta.val.text)
  ELSE None

END_EVENTS == {"on_chain_end", "chain.end", "graph:node:end", "graph:step:end"}

\* One pass of the async for loop with yielded_any never set.
StreamStep_no_flag(acc, ev) ==
  IF ~OptTruthy(ev.etype) THEN acc
  ELSE LET st == ev.state # None /\ DOMAIN ev.state.val # {}
           chunk_text == ChunkText(ev)
       IN  [yielded_any |-> acc.yielded_any,
            final_answer |-> IF st /\ Has(ev.state.val, "answer")
                             THEN Some(ev.state.val.answer)
                             ELSE acc.final_answer,
            out |-> IF OptTruthy(chunk_text) THEN Append(acc.out, chunk_text.val)
                    ELSE acc.out,
            appended |-> IF st /\ ev.etype.val \in END_EVENTS
                         THEN Append(acc.appended,
                                     [state |-> ev.state.val,
                                      node |-> PyOr(ev.name, Some("node")).val])
                         ELSE acc.appended]

\* One pass of the async for loop of run_agent_stream.
StreamStep(acc, ev) ==
  IF ~OptTruthy(ev.etype) THEN acc
  ELSE LET st == ev.state # None /\ DOMAIN ev.state.val # {}
           chunk_text == ChunkText(ev)
       IN  [yielded_any |-> acc.yielded_any \/ OptTruthy(chunk_text),
            final_answer |-> IF st /\ Has(ev.state.val, "answer")
                             THEN Some(ev.state.val.answer)
                             ELSE acc.final_answer,
            out |-> IF OptTruthy(chunk_text) THEN Append(acc.out, chunk_text.val)
                    ELSE acc.out,
            appended |-> IF st /\ ev.etype.val \in END_EVENTS
                         THEN Append(acc.appended,
                                     [state |-> ev.state.val,
                                      node |-> PyOr(ev.name, Some("node")).val])
                         ELSE acc.appended]

RECURSIVE StreamLoop(_, _)
StreamLoop(acc, evs) ==
  IF evs = <<>> THEN acc ELSE StreamLoop(StreamStep(acc, Head(evs)), Tail(evs))

\* The lines _ckpt.append writes for a sequence of snapshots.
RECURSIVE AppendedLines(_, _, _)
AppendedLines(snaps, id, t) ==
  IF snaps = <<>> THEN <<>>
  ELSE <<json_dumps([id |-> id, ts |-> t, node |-> Head(snaps).node,
                     state |-> Head(snaps).state])>>
       \o AppendedLines(Tail(snaps), id + 1, t + 1)

\* run_agent_stream(user_input), consumed to its end: what it yields, and the
\* snapshots it appends on the way.
run_agent_stream(evs) ==
  LET a == StreamLoop([yielded_any |-> FALSE, final_answer |-> None,
                       out |-> <<>>, appended |-> <<>>], evs)
      n == Len(a.appended)
      yielded == IF ~a.yielded_any /\ OptTruthy(a.final_answer)
                 THEN Append(a.out, a.final_answer.val) ELSE a.out
  IN  /\ op = "init"
      /\ Len(file) + n <= MaxLog
      /\ nextId + n <= MaxIds + 1
      /\ file' = file \o AppendedLines(a.appended, nextId, now)
      /\ exists' = (exists \/ n > 0)
      /\ nextId' = nextId + n
      /\ now' = now + n
      /\ Observe("run_agent_stream", evs, Some(yielded))
      /\ UNCHANGED <<mergeVars, engineVars>>

RunAgentStream == \E evs \in EventSeqs : run_agent_stream(evs)

\* The settings the processes are started with: the defaults with any content
\* of the approval file, and, with the checkpointer imported, the defaults
\* with one setting changed.
Configs ==
  { [DefaultConf EXCEPT !.DRY_RUN = TRUE],
    [DefaultConf EXCEPT !.RATE_LIMIT_PER_MIN = SmallCeiling],
    [DefaultConf EXCEPT !.ENABLE_TRACE = FALSE],
    [DefaultConf EXCEPT !.MAX_TRACE_LEN = SmallTraceCap],
    [DefaultConf EXCEPT !.REQUIRE_MODERATION = FALSE],
    [DefaultConf EXCEPT !.ENABLE_HITL = FALSE] }
HitlFiles == {"absent", "yes", "no"}

Init ==
  /\ StoreInit
  /\ ReducerIdle
  /\ graph \in {"single", "multi"}
  /\ memory \in BOOLEAN
  /\ \/ graph = "multi" /\ conf = DefaultConf /\ hitl \in HitlFiles
     \/ graph = "multi" /\ memory /\ conf \in Configs /\ hitl = "absent"
     \/ graph = "single" /\ conf = DefaultConf /\ hitl = "absent"
  /\ reqTimes = <<>>
  /\ chan = InitialChannels(graph)
  /\ pc = "idle"
  /\ tasks = {}
  /\ writes = EmptyDict
  /\ trig = EmptyDict
  /\ merged = {}
  /\ trail = <<>>
  /\ effects = <<>>
  /\ gov = None
  /\ result = None
  /\ runs = 0
  /\ waiting = EmptyDict
  /\ calls = <<>>

Next ==
  \/ RunAgent
  \/ RunMulti
  \/ Tick
  \/ Planner
  \/ Governance
  \/ Researcher
  \/ ToolExec
  \/ Executor
  \/ Audit
  \/ Reviewer
  \/ Router
  \/ DirectAnswer
  \/ RagRetrieve
  \/ RagGenerate
  \/ ToolShell
  \/ BranchSummary
  \/ BranchCitations
  \/ MergeParallel
  \/ EndStep
  \/ NodeRaises
  \/ Finish

Spec == Init /\ [][Next]_vars

\* The multi-agent graph alone, with every node and the engine making
\* progress: a node that has been started returns or raises, a finished
\* superstep is merged, and run_multi goes on after graph_multi.invoke returns.
\* When a run is started is up to the caller.  The process runs with the
\* default settings and no approval file.
InitMultiRuns ==
  /\ Init
  /\ graph = "multi"
  /\ conf = DefaultConf
  /\ hitl = "absent"

RunStep ==
  \/ Planner
  \/ Governance
  \/ Researcher
  \/ ToolExec
  \/ Executor
  \/ Audit
  \/ Reviewer
  \/ NodeRaises
  \/ EndStep
  \/ Finish

NextMultiRuns ==
  \/ RunMulti
  \/ RunStep

SpecMultiRuns == InitMultiRuns /\ [][NextMultiRuns]_vars /\ WF_vars(RunStep)

\* ------------------------------------------------ functions called on their own
\* The functions a client or a test calls directly, each on inputs of its own.
InitCalls == StoreInit /\ ReducerIdle /\ EngineIdle

\* The conditional edge of the router on a state of its own: the routing
\* function's answer looked up in the mapping.
RouteStates ==
  { [user_input |-> <<"hi">>] }
  \cup { [user_input |-> <<"hi">>, route |-> r] :
           r \in {"direct", "rag", "tool", "search", ""} }
CallRouteDecider ==
  /\ op = "init"
  /\ \E state \in RouteStates :
       Observe("_route_decider", state, Some(RouteTable[_route_decider(state)]))
  /\ UNCHANGED <<storeVars, mergeVars, engineVars>>

\* governance_node on a state of its own: with and without planned tools, with
\* and without sensitive words, on the state a thread keeps from a halted run,
\* on an empty and on a used window, under the default and four other settings.
GovStates ==
  { [user_input |-> u] :
      u \in {<<"hi">>, <<"make", "bomb">>, <<"mail", "a@b.co">>,
             <<"call", "555-123-4567">>} }
  \cup { [user_input |-> u, planned_tools |-> p] :
           u \in {<<"hi">>, <<"make", "bomb">>},
           p \in { <<>>, <<"search">>, <<"fetch", "rm">>,
                   <<"rm", "search", "curl">> } }
  \cup { [user_input |-> <<"hi">>, redacted |-> TRUE,
          halt |-> "moderation_block",
          reviewed_answer |-> "Request blocked by moderation."] }
GovConfs ==
  { DefaultConf, [DefaultConf EXCEPT !.DRY_RUN = TRUE],
    [DefaultConf EXCEPT !.RATE_LIMIT_PER_MIN = SmallCeiling],
    [DefaultConf EXCEPT !.REQUIRE_MODERATION = FALSE],
    [DefaultConf EXCEPT !.ENABLE_HITL = FALSE] }
CallGovernance ==
  /\ op = "init"
  /\ \E state \in GovStates, cf \in GovConfs, flag \in HitlFiles,
        times \in {<<>>, <<now>>} :
       Observe("governance_node",
               [state |-> state, conf |-> cf, flag_file |-> flag,
                times |-> times],
               governance_node(state, times, now, cf, flag))
  /\ UNCHANGED <<storeVars, mergeVars, engineVars>>

\* A registered node of the multi-agent graph on a state of its own, bare and
\* wrapped by instrument.  The states a node is given: the entry state of a
\* run, the state after the planner, that state halted by moderation, a state
\* whose answer fails the audit, and a state whose trace has reached the
\* small cap.
NodeStates ==
  LET TraceEntry(n) == [node |-> n, t |-> 0, dt |-> Duration, halt |-> None]
      EntryState ==
        ApplyUpdate("multi", InitialChannels("multi"), [user_input |-> <<"hi">>])
      PlannedState ==
        ApplyUpdate("multi", EntryState,
                    [plan |-> << <<"look", "up", "|", "true">> >>,
                     route |-> "rag",
                     meta |-> [planner_model |-> OLLAMA_CHAT_MODEL],
                     timings |-> [planner |-> Duration],
                     trace |-> <<TraceEntry("planner")>>])
  IN  { EntryState, PlannedState,
        ApplyUpdate("multi", PlannedState,
                    [reviewed_answer |-> "Request blocked by moderation.",
                     halt |-> "moderation_block"]),
        ApplyUpdate("multi", PlannedState,
                    [answer |-> "<answer holding an exec block>"]),
        ApplyUpdate("multi", PlannedState,
                    [trace |-> [i \in 1..(SmallTraceCap - 1) |->
                                  TraceEntry("executor")]]) }
InstrConfs ==
  { DefaultConf, [DefaultConf EXCEPT !.ENABLE_TRACE = FALSE],
    [DefaultConf EXCEPT !.MAX_TRACE_LEN = SmallTraceCap] }

\* What the function registered under a name returns on a state, for each
\* answer of the servers it asks.
MultiOutcomes(n, state, cf) ==
  IF n = "planner" THEN { planner_node(state, r) : r \in PlannerReplies }
  ELSE IF n = "governance"
  THEN { Out(governance_node(state, <<>>, now, cf, f).state, <<>>) :
           f \in HitlFiles }
  ELSE IF n = "researcher" THEN { researcher_node(state, d) : d \in DocSets }
  ELSE IF n = "tool_exec"
  THEN { tool_executor_node(state, r) : r \in ShellResults }
  ELSE IF n = "executor" THEN { executor_node(state, LlmReply("executor")) }
  ELSE IF n = "audit" THEN { audit_node(state) }
  ELSE { reviewer_node(state, r) : r \in ReviewerReplies("reviewer") }

\* governance_node and audit_node assign into the dict they are given and
\* return that same dict, so what the wrapper then assigns into the result
\* lands in the input as well; the other nodes build a new dict.
WritesIntoInput == {"governance", "audit"}
InputAfter(n, state, returned) ==
  IF n \in WritesIntoInput THEN returned ELSE state

CallInstrumented ==
  /\ op = "init"
  /\ \E i \in DOMAIN MultiNodeOrder, state \in NodeStates, cf \in InstrConfs :
       \E out \in MultiOutcomes(MultiNodeOrder[i], state, cf) :
         LET n == MultiNodeOrder[i]
             wrapped == instrument(n, state, out, now, cf)
         IN  Observe("instrument", [node |-> n, state |-> state, conf |-> cf],
                     [fn |-> out.upd, wrapped |-> wrapped.upd,
                      input_after |-> InputAfter(n, state, wrapped.upd)])
  /\ UNCHANGED <<storeVars, mergeVars, engineVars>>

\* One superstep of the multi-agent graph as a function: the nodes' writes
\* are filtered by the schema and applied in the order of the nodes' names.
Superstep(ch, outs) ==
  LET ws == [n \in DOMAIN outs |-> SchemaFilter("multi", outs[n].upd)]
  IN  IF WriteConflict("multi", ws) THEN ch
      ELSE ApplyUpdates("multi", ch, OrderedWrites("multi", ws))

\* graph_multi.invoke as a function of the thread's channels, the input and
\* what the servers answer, for the runs in which every request is answered:
\* the supersteps the edges of the builder give, planner, governance,
\* researcher with tool_exec, executor, audit, reviewer.
RunPipeline(ch0, times, input, cf, resp, docs, rresp, flag_file) ==
  LET W(n, st, out) == instrument(n, st, out, now, cf)
      S1(c) == Superstep(c, ("planner" :> W("planner", c, planner_node(c, resp))))
      S2(c) ==
        LET g == governance_node(c, times, now, cf, flag_file)
        IN  [chan |-> Superstep(c, ("governance" :>
                        W("governance", c, Out(g.state, <<>>)))),
             times |-> g.times]
      S3(c) == Superstep(c,
                 ("researcher" :> W("researcher", c, researcher_node(c, docs)))
                 @@ ("tool_exec" :> W("tool_exec", c, tool_executor_node(c, ""))))
      S4(c) == Superstep(c, ("executor" :>
                 W("executor", c, executor_node(c, LlmReply("executor")))))
      S5(c) == Superstep(c, ("audit" :> W("audit", c, audit_node(c))))
      S6(c) == Superstep(c, ("reviewer" :> W("reviewer", c, reviewer_node(c, rresp))))
      c0 == ApplyUpdate("multi", ch0, [user_input |-> input])
      Then(S(_), r) == [chan |-> S(r.chan), times |-> r.times]
  IN  CHOOSE final \in
        { Then(S6, r5) : r5 \in
          { Then(S5, r4) : r4 \in
            { Then(S4, r3) : r3 \in
              { Then(S3, r2) : r2 \in
                { S2(c1) : c1 \in { S1(c) : c \in {c0} } } } } } } : TRUE

\* The same one or two runs of run_multi in a process started with tracing
\* enabled and in one started with tracing disabled, the checkpointer keeping
\* the thread between the runs.
TracedConfs ==
  { DefaultConf, [DefaultConf EXCEPT !.DRY_RUN = TRUE],
    [DefaultConf EXCEPT !.MAX_TRACE_LEN = SmallTraceCap],
    [DefaultConf EXCEPT !.RATE_LIMIT_PER_MIN = SmallCeiling] }
RunTwice(first, input, cf, resp, docs, rresp, flag_file) ==
  LET start == [chan |-> InitialChannels("multi"), times |-> <<>>]
      r1 == IF first = <<>> THEN start
            ELSE RunPipeline(start.chan, start.times, first, cf, resp, docs,
                             rresp, flag_file)
  IN  CHOOSE final \in
        { RunPipeline(r.chan, r.times, input, cf, resp, docs, rresp,
                      flag_file).chan : r \in {r1} } : TRUE
CallRunMulti ==
  /\ op = "init"
  /\ \E first \in MultiInputs, input \in MultiInputs \ {<<>>}, cf \in TracedConfs,
        resp \in PlannerReplies, docs \in DocSets,
        rresp \in ReviewerReplies("reviewer"), flag \in HitlFiles :
       Observe("run_multi",
               [first |-> first, input |-> input, conf |-> cf],
               [traced |-> RunTwice(first, input, cf, resp, docs, rresp, flag),
                untraced |-> RunTwice(first, input,
                                      [cf EXCEPT !.ENABLE_TRACE = FALSE],
                                      resp, docs, rresp, flag)])
  /\ UNCHANGED <<storeVars, mergeVars, engineVars>>

\* The branches of a fan-out of either graph on a state of their own, as the
\* engine runs them in one superstep: the sets of nodes one node's edges lead
\* to, and what each branch writes once the schema has filtered it.  The
\* states: what a node before the fan-out leaves, and the dict a caller gets
\* by laying the planner's result over the input.
FanOutSets(g) ==
  { targets \in { { e[2] : e \in { x \in Edges(g) : x[1] = n } } :
                    n \in { e[1] : e \in Edges(g) } } :
      Cardinality(targets) >= 2 }
FanOutStates(g) ==
  IF g = "single"
  THEN { [user_input |-> <<"read", "pdf">>, route |-> "rag", retrieved_docs |-> d] :
           d \in DocSets }
  ELSE NodeStates
       \cup { DictUpdate([user_input |-> <<"hi">>],
                         planner_node([user_input |-> <<"hi">>], r).upd) :
                r \in PlannerReplies \cup { << <<"shell", "ls", "|", "true">> >> } }
BranchOutcomes(g, n, state, cf) ==
  IF g = "multi"
  THEN { instrument(n, state, out, now, cf) : out \in MultiOutcomes(n, state, cf) }
  ELSE IF n = "branch_summary"
  THEN { branch_summary(state, LlmReply(n)) }
  ELSE { branch_citations(state, LlmReply(n)) }
CallFanOut ==
  /\ op = "init"
  /\ \E g \in {"single", "multi"}, cf \in InstrConfs :
       \E branches \in FanOutSets(g), state \in FanOutStates(g) :
         \E outs \in [branches -> UNION { BranchOutcomes(g, n, state, cf) :
                                            n \in branches }] :
           /\ \A n \in branches : outs[n] \in BranchOutcomes(g, n, state, cf)
           /\ Observe("fan_out", [graph |-> g, state |-> state, conf |-> cf],
                      [n \in branches |-> SchemaFilter(g, outs[n].upd)])
  /\ UNCHANGED <<storeVars, mergeVars, engineVars>>

\* _validate_input on an input of its own, character by character: the empty
\* text, and texts around the length the pattern allows, ending in a letter
\* or in a newline.
ValidateInputs ==
  {<<>>}
  \cup { [i \in 1..n |-> "x"] : n \in {1, MAX_INPUT_CHARS, MAX_INPUT_CHARS + 1} }
  \cup { Append([i \in 1..n |-> "x"], "\n") :
           n \in {MAX_INPUT_CHARS - 1, MAX_INPUT_CHARS, MAX_INPUT_CHARS + 1} }
CallValidate ==
  /\ op = "init"
  /\ \E u \in ValidateInputs : Observe("_validate_input", u, _validate_input(u))
  /\ UNCHANGED <<storeVars, mergeVars, engineVars>>

\* The two shallow-merge reducers on the same pair of arguments: None, the
\* empty dict, and dicts over two keys.  dict.update changes the dict it is
\* called on: agent/state.py calls it on merged, the dict it created, and
\* agent/multi/state.py on c, the copy of a; an argument is changed by a call
\* only if it is the receiver of an update.
OptDicts ==
  {None} \cup { Some(d) : d \in UNION { [ks -> {1, 2}] : ks \in SUBSET {"k1", "k2"} } }
UpdateReceiver(fn) == IF fn = "agent.state" THEN "merged" ELSE "c"
ArgsAfter(fn, a, b) ==
  [a |-> IF UpdateReceiver(fn) = "a" THEN Some(DictUpdate(a.val, b.val)) ELSE a,
   b |-> IF UpdateReceiver(fn) = "b" THEN Some(DictUpdate(b.val, a.val)) ELSE b]
CallMergeDicts ==
  /\ op = "init"
  /\ \E a \in OptDicts, b \in OptDicts :
       Observe("_merge_dict", [a |-> a, b |-> b],
               [single |-> _merge_dict(a, b), multi |-> multi_merge_dict(a, b),
                single_args |-> ArgsAfter("agent.state", a, b),
                multi_args |-> ArgsAfter("agent.multi.state", a, b)])
  /\ UNCHANGED <<storeVars, mergeVars, engineVars>>

NextCalls ==
  \/ CallMergeDicts
  \/ CallValidate
  \/ RunAgentStream
  \/ CallRouteDecider
  \/ CallGovernance
  \/ CallInstrumented
  \/ CallRunMulti
  \/ CallFanOut

SpecCalls == InitCalls /\ [][NextCalls]_vars

\* ------------------------------------- governance.py: _rate_limit from threads
\* _rate_limit called from the threads of a server process.  A call reads the
\* clock (line 31), then waits for _RATE_LOCK (line 32); under the lock it
\* evicts, compares the count with the ceiling and records its own reading
\* (lines 33-37).  Between the two steps other threads run and time passes.
Threads == {"a", "b"}
Ceilings == 0..MaxCeiling
limiterRest == <<graph, memory, hitl, chan, pc, tasks, writes, trig, merged,
                 trail, effects, gov, result, runs>>

InitLimiter ==
  /\ StoreInit
  /\ ReducerIdle
  /\ graph = "multi"
  /\ memory = FALSE
  /\ conf \in { [DefaultConf EXCEPT !.RATE_LIMIT_PER_MIN = n] : n \in Ceilings }
  /\ hitl = "absent"
  /\ reqTimes = <<>>
  /\ chan = EmptyDict
  /\ pc = "idle"
  /\ tasks = {}
  /\ writes = EmptyDict
  /\ trig = EmptyDict
  /\ merged = {}
  /\ trail = <<>>
  /\ effects = <<>>
  /\ gov = None
  /\ result = None
  /\ runs = 0
  /\ waiting = EmptyDict
  /\ calls = <<>>

\* now = time.time()
ReadClock ==
  /\ \E th \in Threads \ DOMAIN waiting :
       waiting' = (th :> now) @@ waiting
  /\ Len(calls) + Cardinality(DOMAIN waiting) < MaxCalls
  /\ UNCHANGED <<storeVars, obsVars, mergeVars, limiterRest, conf, reqTimes, calls>>

\* with _RATE_LOCK: the body of the call, on the reading taken before.
HoldLock ==
  /\ \E th \in DOMAIN waiting :
       LET r == _rate_limit(reqTimes, waiting[th], conf.RATE_LIMIT_PER_MIN)
           call == [thread |-> th, t |-> waiting[th], window |-> reqTimes,
                    ok |-> r.ok]
       IN  /\ reqTimes' = r.times
           /\ waiting' = [x \in DOMAIN waiting \ {th} |-> waiting[x]]
           /\ calls' = Append(calls, call)
           /\ Observe("_rate_limit", call, r)
  /\ UNCHANGED <<storeVars, mergeVars, limiterRest, conf>>

\* Time passes: a second, or the length of the window.
ClockTick ==
  /\ (now % WINDOW) + (now \div WINDOW) < MaxTicks
  /\ \E d \in {1, WINDOW} : now' = now + d
  /\ UNCHANGED <<file, exists, nextId, obsVars, mergeVars, engineVars>>

NextLimiter ==
  \/ ReadClock
  \/ HoldLock
  \/ ClockTick

SpecLimiter == InitLimiter /\ [][NextLimiter]_vars

\* ===================================================================== claims

\* The nodes between governance and the reviewer.
HaltSkipped == {"researcher", "tool_exec", "executor", "audit"}
InTrail(n) == \E i \in 1..Len(trail) : trail[i] = n
Count(seq, x) == Cardinality({ i \in 1..Len(seq) : seq[i] = x })
GateHalted == gov.tag = "value" /\ gov.val.gate # "pass"
RunReturned == pc = "idle" /\ op = "append" /\ result.tag = "value"

\* C1: in the multi-agent pipeline, once a gate of governance_node has set the
\* halt marker, none of researcher, tool_exec, executor and audit makes a
\* retrieval request, a shell request or a model call in that run, whatever
\* the halt reason.
C1_NoEffectsAfterHalt ==
  GateHalted => \A i \in 1..Len(effects) : effects[i].node \notin HaltSkipped

\* C2: when a gate of governance_node halts a run, the reviewed_answer of the
\* final state run_multi returns is the message that gate set; no later gate
\* or node replaces it.
C2_HaltMessageIsFinal ==
  (RunReturned /\ GateHalted) =>
    Get(result.val, "reviewed_answer") = gov.val.msg

\* The ids of a sequence of records.
IdsOf(records) == { records[i].id : i \in 1..Len(records) }
FirstWithId(records, id) ==
  CHOOSE i \in 1..Len(records) :
    /\ records[i].id = id
    /\ \A j \in 1..(i - 1) : records[j].id # id

\* C3: rollback(id) with id present in the log returns the state of the record
\* with that id, and load_all() afterwards is exactly the prefix of the previous
\* log that ends with that record (that record is the new tail, the earlier
\* records are unchanged and in order, the later ones are gone).
C3_RollbackFound ==
  (op = "rollback" /\ arg \in IdsOf(before)) =>
    LET i == FirstWithId(before, arg)
    IN  /\ ret = Some(before[i].state)
        /\ load_all = SubSeq(before, 1, i)
        /\ load_all[Len(load_all)].id = arg
        /\ \A j \in 1..Len(before) : before[j].id = arg => j = i

C3_Witness ==
  /\ op = "rollback"
  /\ arg \in IdsOf(before)
  /\ Len(before) = 3
  /\ Len(load_all) = 2

\* C4: rollback(id) with id not present in the log (also an empty log and a
\* file never written) returns None, raises nothing, and leaves load_all()
\* as it was.
C4_RollbackNotFound ==
  (op = "rollback" /\ arg \notin IdsOf(before)) =>
    /\ ret = None
    /\ load_all = before

C4_Witness ==
  /\ op = "rollback"
  /\ arg \notin IdsOf(before)
  /\ Len(before) = 2
  /\ arg > 0

\* clamp(i, lo, hi) as the claim states it.
Clamp(i, lo, hi) == IF i < lo THEN lo ELSE IF i > hi THEN hi ELSE i

\* C5: time_travel(i) on a log of n > 0 records returns the state of
\* load_all()[clamp(i, 0, n-1)] for every integer i, and returns None if and
\* only if the log is empty.
C5_TimeTravelClamps ==
  op = "time_travel" =>
    /\ (ret = None) <=> (before = <<>>)
    /\ before # <<>> =>
         ret = Some(before[Clamp(arg, 0, Len(before) - 1) + 1].state)
    /\ load_all = before

C5_Witness ==
  /\ op = "time_travel"
  /\ arg < 0
  /\ Len(before) = 3
  /\ before[1].state # before[3].state

\* C6: the log changes only by append adding one record at the tail and by a
\* successful rollback leaving a prefix; load_all, latest_state, time_travel
\* and a rollback that finds nothing leave it unchanged.
C6_LogStep ==
  \/ load_all' = load_all
  \/ /\ op' = "append"
     /\ Len(load_all') = Len(load_all) + 1
     /\ SubSeq(load_all', 1, Len(load_all)) = load_all
  \/ /\ op' = "rollback"
     /\ ret'.tag = "value"
     /\ Len(load_all') < Len(load_all)
     /\ IsPrefix(load_all', load_all)

C6_ReadOnly ==
  (\/ op' \in {"load_all", "latest_state", "time_travel"}
   \/ (op' = "rollback" /\ ret' = None)) => load_all' = load_all

C6_OnlyRollbackShrinks == [][C6_LogStep /\ C6_ReadOnly]_vars

C6_Witness ==
  /\ op = "rollback"
  /\ Len(before) = 3
  /\ Len(load_all) = 1

\* The fan-out sets and their join nodes.
Joins ==
  { [join |-> "merge_parallel",
     branches |-> {"branch_summary", "branch_citations"}],
    [join |-> "executor", branches |-> {"researcher", "tool_exec"}] }

\* C7: in the single-agent graph's fan-out, branch_summary and
\* branch_citations write disjoint keys of parallel_parts, and the state
\* merge_parallel sees and the final state hold both this run's summary and
\* this run's citations, the same in both completion orders of the branches.
C7_BothParts ==
  [summary |-> LlmReply("branch_summary"),
   citations |-> LlmReply("branch_citations")]

C7_FanOutOrderIndependent ==
  /\ ({"branch_summary", "branch_citations"} \subseteq DOMAIN writes) =>
       (DOMAIN writes["branch_summary"].parallel_parts)
         \cap (DOMAIN writes["branch_citations"].parallel_parts) = {}
  /\ ("merge_parallel" \in tasks \/ InTrail("merge_parallel")) =>
       /\ pc \in {"running", "invoked"} => chan.parallel_parts = C7_BothParts
       /\ RunReturned => result.val.parallel_parts = C7_BothParts

C7_Witness ==
  /\ RunReturned
  /\ trail = <<"router", "rag_retrieve", "branch_citations", "branch_summary",
               "merge_parallel", "rag_generate">>
  /\ result.val.parallel_parts = C7_BothParts

\* C8: a join node starts only after every branch of its fan-out set has
\* completed and had its output merged, and it runs exactly once in a run
\* that reaches its fan-out: merge_parallel after branch_summary and
\* branch_citations, executor after researcher and tool_exec.
C8_JoinAfterAllBranches ==
  \A j \in Joins :
    /\ (j.join \in tasks \/ InTrail(j.join)) => j.branches \subseteq merged
    /\ Count(trail, j.join) <= 1
    /\ j.join \in tasks => ~InTrail(j.join)
    /\ (pc = "invoked" /\ \E b \in j.branches : InTrail(b)) =>
         Count(trail, j.join) = 1

C8_Witness ==
  /\ pc = "invoked"
  /\ Count(trail, "executor") = 1
  /\ \E i, k \in 1..Len(trail) :
       i < k /\ trail[i] = "tool_exec" /\ trail[k] = "researcher"
  /\ {"researcher", "tool_exec"} \subseteq merged

\* C9: for the append reducers, merging B into A and then C into the result
\* equals merging B + C into A (None read as the empty list by _merge_list;
\* operator.add is applied to lists).
C9_MergeListAssociative ==
  op = "merge_list" =>
    /\ ret.left = ret.right
    /\ (ma # None /\ mb # None /\ mc # None) =>
         /\ ret.add_left = ret.add_right
         /\ ret.add_left = Some(ret.left)

C9_Witness ==
  /\ op = "merge_list"
  /\ ma = Some(<<"x">>)
  /\ mb = None
  /\ mc = Some(<<"y", "x">>)
  /\ ret.left = <<"x", "y", "x">>

\* C10: a blocking run (run_agent, run_multi) in which k nodes complete adds
\* exactly k records to the log, in completion order, each naming the node
\* that just completed.
C10_RecordPerNode ==
  RunReturned =>
    /\ Len(load_all) = Len(before) + Len(trail)
    /\ \A i \in 1..Len(trail) : load_all[Len(before) + i].node = trail[i]

NodeFailed == pc = "idle" /\ op = "raise"

C12_NodeFailureSurfaced ==
  NodeFailed =>
    /\ result = Raise("NodeExecutionError(" \o arg \o ", " \o ret.exc \o ")")
    /\ load_all = before

\* The fragments run_agent_stream is to yield for a sequence of events: the
\* non-empty texts of the typed events, in the events' order.
Fragments(evs) ==
  LET typed == SelectSeq(evs, LAMBDA e : OptTruthy(e.etype) /\ OptTruthy(ChunkText(e)))
  IN  [i \in 1..Len(typed) |-> ChunkText(typed[i]).val]

\* The answer field of the last event state that holds one.
AnswerEvents(evs) ==
  { i \in 1..Len(evs) : /\ OptTruthy(evs[i].etype)
                        /\ evs[i].state # None
                        /\ "answer" \in DOMAIN evs[i].state.val }
LastAnswer(evs) ==
  IF AnswerEvents(evs) = {} THEN ""
  ELSE evs[CHOOSE i \in AnswerEvents(evs) : \A j \in AnswerEvents(evs) : j <= i]
         .state.val.answer

\* C13: run_agent_stream yields the fragments in the order the events deliver
\* them, and yields the final answer once, after the last event, if and only
\* if no fragment was yielded and a final answer exists (is not empty).
C13_StreamYields ==
  op = "run_agent_stream" =>
    LET frags == Fragments(arg)
        final == LastAnswer(arg)
    IN  /\ SubSeq(ret.val, 1, Len(frags)) = frags
        /\ Len(ret.val) <= Len(frags) + 1
        /\ (Len(ret.val) = Len(frags) + 1) <=> (frags = <<>> /\ final # "")
        /\ Len(ret.val) = Len(frags) + 1 => ret.val[Len(ret.val)] = final

C13_Witness ==
  /\ op = "run_agent_stream"
  /\ Len(arg) = 3
  /\ LastAnswer(arg) = "out"
  /\ ret.val = <<"b", "a">>

\* The three nodes the router's conditional edge leads to, by route.
RouteTargets == [direct |-> "direct_answer", rag |-> "rag_retrieve",
                 tool |-> "tool_shell"]
Routed == { n \in {"direct_answer", "rag_retrieve", "tool_shell"} :
              n \in tasks \/ InTrail(n) }

\* C14: in the single-agent graph the routing function is evaluated on the
\* state with the router's route of this run merged in and names one target:
\* exactly one of direct_answer, rag_retrieve, tool_shell executes in a run,
\* the one of the route the router computed for this run's input.
C14_OneRoutedNode ==
  graph = "single" =>
    /\ Cardinality(Routed) <= 1
    /\ \A n \in Routed : "router" \in merged
    /\ (pc = "invoked" \/ RunReturned) =>
         /\ chan.route = route_node(chan).upd.route
         /\ Routed = {RouteTargets[chan.route]}
         /\ Count(trail, RouteTargets[chan.route]) = 1

C14_Witness ==
  /\ RunReturned
  /\ graph = "single"
  /\ memory
  /\ Len(before) = 1
  /\ before[1].state.route = "tool"
  /\ result.val.route = "rag"
  /\ InTrail("rag_retrieve")
  /\ ~InTrail("tool_shell")

Undeclared(n) ==
  LET upd == IF n = "planner"
             THEN planner_node(chan, CHOOSE r \in PlannerReplies : TRUE).upd
             ELSE IF n = "reviewer"
             THEN reviewer_node(chan, CHOOSE r \in ReviewerReplies(n) : TRUE).upd
             ELSE EmptyDict
  IN  DOMAIN upd \ Schema("multi")

\* C16: a partial update that holds a field the schema does not declare makes
\* the merge fail with a schema error that ends the run; the field is never
\* dropped silently (planner_node's tasks, reviewer_node's critique).
C16_UndeclaredFieldIsFatal ==
  graph = "multi" =>
    /\ \A n \in merged : Undeclared(n) = {}
    /\ (\E i \in 1..Len(trail) : Undeclared(trail[i]) # {}) =>
         (pc \in {"running", "idle"} /\ (pc = "idle" => result = Raise("SchemaError")))

\* A step in which governance_node ran, and the window it leaves when it
\* called the limiter: the timestamps at most 60 seconds old.
GovernanceRan == gov' # gov /\ gov'.tag = "value"
Recent == SelectSeq(reqTimes, LAMBDA ts : now - ts <= 60)

\* C17: the rate-limit window never holds more than RATE_LIMIT_PER_MIN
\* timestamps; a call of _rate_limit first evicts the timestamps older than 60
\* seconds, then rejects exactly when the remaining count has reached the
\* ceiling, recording nothing, and otherwise accepts and records the request's
\* timestamp.
C17_LimiterStep ==
  GovernanceRan =>
    IF gov'.val.gate = "moderation" THEN reqTimes' = reqTimes
    ELSE IF Len(Recent) >= conf.RATE_LIMIT_PER_MIN
    THEN gov'.val.gate = "rate_limit" /\ reqTimes' = Recent
    ELSE gov'.val.gate # "rate_limit" /\ reqTimes' = Append(Recent, now)

C17_WindowBounded ==
  /\ [](Len(reqTimes) <= conf.RATE_LIMIT_PER_MIN)
  /\ [][C17_LimiterStep]_vars

C17_Witness ==
  /\ conf.RATE_LIMIT_PER_MIN = SmallCeiling
  /\ gov.tag = "value"
  /\ gov.val.gate = "pass"
  /\ Len(reqTimes) = SmallCeiling
  /\ reqTimes[1] >= TickStep

\* The requests the limiter had accepted before the current run's request, in
\* a returned run that reached the limiter.
AcceptedBefore ==
  Len(reqTimes) - (IF gov.val.gate = "rate_limit" THEN 0 ELSE 1)

\* C18: with the ceiling at N per minute and N+1 runs started within the same
\* 60 seconds, none blocked by moderation, the first N runs are not
\* rate-limited and run N+1 halts with halt = "rate_limited"; a first run that
\* passes every gate ends with halt absent.
C18_CeilingThenLimited ==
  (/\ RunReturned
   /\ graph = "multi"
   /\ gov.tag = "value"
   /\ gov.val.gate # "moderation"
   /\ now < TickStep
   /\ AcceptedBefore = runs - 1) =>
    LET N == conf.RATE_LIMIT_PER_MIN
    IN  /\ runs <= N =>
             /\ gov.val.gate # "rate_limit"
             /\ Get(result.val, "halt") # Some("rate_limited")
        /\ (runs <= N /\ gov.val.gate = "pass") => ~Has(result.val, "halt")
        /\ runs = N + 1 =>
             /\ gov.val.gate = "rate_limit"
             /\ Get(result.val, "halt") = Some("rate_limited")

C18_Witness ==
  /\ RunReturned
  /\ graph = "multi"
  /\ conf.RATE_LIMIT_PER_MIN = SmallCeiling
  /\ runs = SmallCeiling + 1
  /\ now < TickStep
  /\ Len(before) = SmallCeiling
  /\ ~Has(before[1].state, "halt")
  /\ Get(result.val, "halt") = Some("rate_limited")

\* The planned tools of a state, and those of them outside the allow-list, in
\* their planned order.
PlannedOf(state) ==
  IF "planned_tools" \in DOMAIN state THEN state.planned_tools ELSE <<>>
DisallowedOf(state) ==
  SelectSeq(PlannedOf(state), LAMBDA x : x \notin {"search", "code_exec", "fetch"})

\* C19: when governance_node reaches the allow-list gate and planned_tools
\* holds a name outside ALLOWED_TOOLS, it sets halt = "tool_block" and a
\* message listing exactly the disallowed names in planned order; with
\* planned_tools empty, absent or all allowed the gate does not halt.
C19_AllowListGate ==
  (op = "governance_node" /\ ret.gate \notin {"moderation", "rate_limit"}) =>
    IF DisallowedOf(arg.state) # <<>>
    THEN /\ ret.gate = "allow_list"
         /\ ret.state.halt = "tool_block"
         /\ ret.state.reviewed_answer =
              "Disallowed tools: " \o PyRepr(DisallowedOf(arg.state))
    ELSE /\ ret.gate # "allow_list"
         /\ Get(ret.state, "halt") # Some("tool_block")

C19_Witness ==
  /\ op = "governance_node"
  /\ PlannedOf(arg.state) = <<"rm", "search", "curl">>
  /\ Get(ret.state, "halt") = Some("tool_block")
  /\ Get(ret.state, "reviewed_answer") = Some("Disallowed tools: ['rm', 'curl']")

\* C20: with dry-run enabled and no earlier gate halting, governance_node sets
\* dry_run, halt = "dry_run_complete" and a message recording the planned
\* tools, and the nodes after governance perform no tool execution, retrieval
\* or model call in that run.
AfterGovernance == {"researcher", "tool_exec", "executor", "audit", "reviewer"}

C20_DryRunNoEffects ==
  (gov.tag = "value" /\ gov.val.gate = "dry_run") =>
    /\ gov.val.halt = Some("dry_run_complete")
    /\ gov.val.msg = Some("Dry-run OK. Planned tools: []")
    /\ "governance" \in merged => Get(chan, "dry_run") = Some(TRUE)
    /\ \A i \in 1..Len(effects) : effects[i].node \notin AfterGovernance

\* The words the approval file may hold to approve.
ApprovalWords == {"y", "yes", "approve", "approved"}

\* C21: with human approval enabled, when governance_node reaches the approval
\* gate and the approval signal is absent (no approval file, or a file whose
\* content is not an approval word) it halts with halt = "hitl_pending" and the
\* message "Awaiting human approval."; with approval present it sets
\* hitl_approved and does not halt.
C21_ApprovalGate ==
  (op = "governance_node" /\ arg.conf.ENABLE_HITL
     /\ ret.gate \in {"hitl", "pass"}) =>
    IF arg.flag_file \in ApprovalWords
    THEN /\ ret.gate = "pass"
         /\ Get(ret.state, "hitl_approved") = Some(TRUE)
         /\ Get(ret.state, "halt") = Get(arg.state, "halt")
    ELSE /\ ret.gate = "hitl"
         /\ Get(ret.state, "halt") = Some("hitl_pending")
         /\ Get(ret.state, "reviewed_answer") = Some("Awaiting human approval.")

\* A text with every sensitive word replaced by its placeholder.
Scrubbed(text) ==
  [i \in 1..Len(text) |->
     IF text[i] = "a@b.co" THEN "<email>"
     ELSE IF text[i] = "555-123-4567" THEN "<phone>"
     ELSE text[i]]

\* The step in which governance_node returns without halting at moderation.
C22_GovernanceStep ==
  (trail' = Append(trail, "governance") /\ gov'.val.gate # "moderation") =>
    LET returned == writes'["governance"]
        text == chan.user_input
    IN  /\ returned.user_input = Scrubbed(text)
        /\ Scrubbed(text) # text => Get(returned, "redacted") = Some(TRUE)
        /\ Scrubbed(text) = text =>
             Get(returned, "redacted") = Get(chan, "redacted")

\* The nodes after governance are running or about to run in a run that
\* moderation did not halt.
PastModeration ==
  /\ graph = "multi"
  /\ pc = "running"
  /\ op = "invoke"
  /\ "governance" \in merged
  /\ gov.tag = "value"
  /\ gov.val.gate # "moderation"

\* C22: whenever governance_node does not halt at the moderation gate, the
\* user_input it returns, and so the user_input every node after it is given,
\* is the caller's text with every sensitive word replaced, and it sets
\* redacted to true exactly when the replacement changed the text.
C22_DownstreamSeesRedacted ==
  /\ [](PastModeration => chan.user_input = Scrubbed(arg))
  /\ [][C22_GovernanceStep]_vars

C22_Witness ==
  /\ PastModeration
  /\ "executor" \in tasks
  /\ arg = <<"mail", "a@b.co">>
  /\ chan.user_input = <<"mail", "<email>">>
  /\ Get(chan, "redacted") = Some(TRUE)

\* The message each halt reason of governance_node comes with, for the state
\* and the settings of the last call.
GateMessage(reason) ==
  IF reason = "moderation_block" THEN "Request blocked by moderation."
  ELSE IF reason = "rate_limited"
  THEN "Rate limit exceeded (" \o ToString(arg.conf.RATE_LIMIT_PER_MIN)
         \o "/min). Retry later."
  ELSE IF reason = "tool_block"
  THEN "Disallowed tools: " \o PyRepr(DisallowedOf(arg.state))
  ELSE IF reason = "dry_run_complete"
  THEN "Dry-run OK. Planned tools: " \o PyRepr(PlannedOf(arg.state))
  ELSE "Awaiting human approval."
GateReasons ==
  {"moderation_block", "rate_limited", "tool_block", "dry_run_complete",
   "hitl_pending"}

\* C23: every invocation of governance_node is all-or-nothing about the halt
\* marker: in the state it returns either halt is one of the five gate reasons
\* and reviewed_answer is that gate's message, both written by this
\* invocation, or halt and reviewed_answer are both as the invocation found
\* them.
C23_HaltAllOrNothing ==
  op = "governance_node" =>
    LET h == Get(ret.state, "halt")
        m == Get(ret.state, "reviewed_answer")
    IN  \/ /\ ret.gate = "pass"
           /\ h = Get(arg.state, "halt")
           /\ m = Get(arg.state, "reviewed_answer")
        \/ /\ ret.gate # "pass"
           /\ h.tag = "value"
           /\ h.val \in GateReasons
           /\ m = Some(GateMessage(h.val))

C23_Witness ==
  /\ op = "governance_node"
  /\ Get(arg.state, "halt") = Some("moderation_block")
  /\ Get(ret.state, "halt") = Some("hitl_pending")
  /\ Get(ret.state, "reviewed_answer") = Some("Awaiting human approval.")

\* C24: a run of the multi-agent pipeline in which a gate halts is never
\* surfaced as an exception: run_multi returns normally after the graph has
\* reached END, the state it returns has halt and reviewed_answer set, and
\* that state was appended to the log as the run's checkpoint.
C24_HaltedRunReturns ==
  (graph = "multi" /\ pc = "idle" /\ op # "invalid" /\ GateHalted) =>
    /\ RunReturned
    /\ Truthy(result.val, "halt")
    /\ Truthy(result.val, "reviewed_answer")
    /\ load_all # <<>>
    /\ load_all[Len(load_all)].node = "FINAL"
    /\ load_all[Len(load_all)].state = result.val

\* The fields instrument writes.
InstrFields == {"timings", "trace"}
TracedCall == op = "instrument" /\ arg.conf.ENABLE_TRACE

C30_InputNotMutated ==
  op = "instrument" => ret.input_after = arg.state

\* A state without the fields instrument writes.
WithoutInstrFields(state) == [k \in DOMAIN state \ InstrFields |-> state[k]]

\* C25: with tracing disabled instrument(name, fn) is fn itself, and a run of
\* the multi-agent pipeline with tracing disabled ends in the same final
\* state, on every field other than timings and trace, as the same run with
\* tracing enabled.
C25_TracingIsTransparent ==
  /\ (op = "instrument" /\ ~arg.conf.ENABLE_TRACE) => ret.wrapped = ret.fn
  /\ op = "run_multi" =>
       WithoutInstrFields(ret.traced) = WithoutInstrFields(ret.untraced)

C25_Witness ==
  /\ op = "run_multi"
  /\ arg.first = <<"make", "bomb">>
  /\ arg.input = <<"mail", "a@b.co">>
  /\ Len(ret.traced.trace) > Len(ret.untraced.trace)
  /\ DOMAIN ret.traced.timings # {}
  /\ DOMAIN ret.untraced.timings = {}
  /\ Get(ret.untraced, "redacted") = Some(TRUE)
  /\ Get(ret.untraced, "reviewed_answer") = Get(ret.traced, "reviewed_answer")

\* C27: in every reachable state of a run of the multi-agent pipeline the
\* accumulated trace has at most MAX_TRACE_LEN entries, whichever nodes ran
\* after the cap was reached, and reaching the cap raises no error.
C27_TraceCapped ==
  graph = "multi" =>
    /\ Len(chan.trace) <= conf.MAX_TRACE_LEN
    /\ result # Raise("InvalidUpdateError")

\* C28: each call of run_agent or run_multi starts from a state created from
\* that call's input alone: the state the entry node is given holds the input
\* and nothing an earlier run wrote.
C28_RunStartsFresh ==
  (pc = "running" /\ op = "invoke" /\ trail = <<>>) =>
    chan = ApplyUpdate(graph, InitialChannels(graph), [user_input |-> arg])

\* A superstep of nodes between governance and the reviewer has completed in
\* a run a gate halted, and its writes are about to be merged.
HaltedStepDone ==
  /\ graph = "multi"
  /\ pc = "running"
  /\ GateHalted
  /\ Truthy(chan, "halt")
  /\ tasks = {}
  /\ DOMAIN writes # {}
  /\ DOMAIN writes \subseteq HaltSkipped

\* C29: once the halt marker is set in a run of the multi-agent pipeline,
\* merging the output of researcher, tool_exec, executor or audit leaves every
\* field of the accumulated state other than timings and trace as it was.
C29_HaltedPassThrough ==
  HaltedStepDone =>
    WithoutInstrFields(ApplyUpdates(graph, chan, OrderedWrites(graph, writes)))
      = WithoutInstrFields(chan)

\* C31: in either graph, every field that two branches of one fan-out both
\* write has a reducer: no fan-out step has two writers to an overwrite field.
C31_FanOutFieldsReduced ==
  op = "fan_out" => ~WriteConflict(arg.graph, ret)

\* The names of the trace's entries, and the last k of them.
TraceNames == [i \in 1..Len(chan.trace) |-> chan.trace[i].node]
LastOf(seq, k) == SubSeq(seq, Len(seq) - k + 1, Len(seq))
MergedInOrder == SelectSeq(PipelineOrder, LAMBDA n : n \in merged)

\* C32: in the multi-agent pipeline with tracing enabled and the trace still
\* shorter than its cap, so that no node of the run found it full, the trace
\* holds exactly one entry per node whose step the run has merged, in the
\* order of the pipeline with researcher before tool_exec whichever completed
\* first, and timings has an entry for each such node; after a complete run
\* these are the seven nodes.
C32_TimingsAndTrace ==
  (graph = "multi" /\ conf.ENABLE_TRACE /\ Len(chan.trace) < conf.MAX_TRACE_LEN) =>
    /\ Len(chan.trace) >= Cardinality(merged)
    /\ LastOf(TraceNames, Cardinality(merged)) = MergedInOrder
    /\ merged \subseteq DOMAIN chan.timings
    /\ Len(chan.trace) <= Len(PipelineOrder) * runs
    /\ ~memory => /\ Len(chan.trace) = Cardinality(merged)
                  /\ DOMAIN chan.timings = merged
    /\ RunReturned =>
         /\ MergedInOrder = PipelineOrder
         /\ DOMAIN chan.timings = { PipelineOrder[i] : i \in DOMAIN PipelineOrder }

\* A complete traced run in which tool_exec completed before researcher, on a
\* thread that kept the seven entries of the run before.
C32_Witness ==
  /\ graph = "multi" /\ conf.ENABLE_TRACE /\ RunReturned
  /\ Len(chan.trace) < conf.MAX_TRACE_LEN
  /\ Len(chan.trace) = 2 * Len(PipelineOrder)
  /\ \E i, j \in DOMAIN trail :
       i < j /\ trail[i] = "tool_exec" /\ trail[j] = "researcher"

\* The call that has just returned found every timestamp of the window more
\* than 60 seconds older than its own reading.
AllExpired ==
  /\ op = "_rate_limit"
  /\ \A i \in DOMAIN arg.window : arg.t - arg.window[i] > WINDOW

\* C33: with a ceiling of at least 1, a call of _rate_limit that finds every
\* recorded timestamp more than 60 seconds older than its reading of the clock
\* evicts them all and accepts the request, whatever was accepted or rejected
\* before.
C33_LimiterRecovers ==
  (AllExpired /\ conf.RATE_LIMIT_PER_MIN >= 1) =>
    /\ ret.ok
    /\ reqTimes = <<arg.t>>

\* A call accepted on a full window of expired timestamps after a rejection.
C33_Witness ==
  /\ AllExpired
  /\ conf.RATE_LIMIT_PER_MIN >= 1
  /\ Len(arg.window) = conf.RATE_LIMIT_PER_MIN
  /\ \E i \in DOMAIN calls : ~calls[i].ok
  /\ ret.ok

\* The calls accepted before the one that has just returned whose timestamps
\* are at most 60 seconds older than its own.
AcceptedInWindow ==
  { i \in 1..(Len(calls) - 1) :
      calls[i].ok /\ arg.t - calls[i].t <= WINDOW }

\* C34: with _rate_limit called from several threads, each reading the clock
\* before it acquires the lock, a request is rejected only if at least
\* RATE_LIMIT_PER_MIN requests were accepted within the 60 seconds before its
\* own timestamp, and after a call's eviction step the window holds no
\* timestamp more than 60 seconds older than that call's.
C34_ThreadedLimiter ==
  op = "_rate_limit" =>
    /\ ~ret.ok => Cardinality(AcceptedInWindow) >= conf.RATE_LIMIT_PER_MIN
    /\ \A i \in DOMAIN reqTimes : arg.t - reqTimes[i] <= WINDOW

\* What the gates of the last call of governance_node had to decide on: whether
\* the input holds a policy term, whether the window was full, and which
\* fields the later gates would have written.
InputFlagged ==
  /\ arg.conf.REQUIRE_MODERATION
  /\ \E i \in DOMAIN arg.state.user_input :
       arg.state.user_input[i] \in {"terror", "self-harm", "bomb"}
WindowFull ==
  Cardinality({ i \in DOMAIN arg.times : now - arg.times[i] <= WINDOW })
    >= arg.conf.RATE_LIMIT_PER_MIN
SlotConsumed == ret.times = Append(arg.times, now)
Untouched(fields) ==
  \A f \in fields : Get(ret.state, f) = Get(arg.state, f)

\* C35: governance_node evaluates moderation, redaction, rate limit,
\* allow-list, dry-run and human approval in this order and returns at the
\* first gate that halts, leaving what the later gates write untouched: a
\* request blocked by moderation is neither redacted nor recorded in the
\* window, a rate-limited one is not recorded, and a request halted by the
\* allow-list, the dry-run or the approval gate has been recorded.
C35_GateOrder ==
  op = "governance_node" =>
    IF InputFlagged
    THEN /\ ret.gate = "moderation"
         /\ ret.times = arg.times
         /\ ret.state.user_input = arg.state.user_input
         /\ Untouched({"redacted", "dry_run", "hitl_approved"})
    ELSE IF WindowFull
    THEN /\ ret.gate = "rate_limit"
         /\ ret.times = arg.times
         /\ ret.state.user_input = Scrubbed(arg.state.user_input)
         /\ Untouched({"dry_run", "hitl_approved"})
    ELSE IF DisallowedOf(arg.state) # <<>>
    THEN /\ ret.gate = "allow_list"
         /\ SlotConsumed
         /\ Untouched({"dry_run", "hitl_approved"})
    ELSE IF arg.conf.DRY_RUN
    THEN /\ ret.gate = "dry_run"
         /\ SlotConsumed
         /\ Untouched({"hitl_approved"})
    ELSE /\ ret.gate \in {"hitl", "pass"}
         /\ SlotConsumed
         /\ ret.gate = "hitl" => Untouched({"hitl_approved"})
         /\ ~arg.conf.ENABLE_HITL => ret.gate = "pass"

\* A request halted by the approval gate on a window that held a timestamp:
\* its own timestamp has been added.
C35_Witness ==
  /\ op = "governance_node"
  /\ ret.gate = "hitl"
  /\ arg.times # <<>>
  /\ Len(ret.times) = Len(arg.times) + 1

\* C36: an empty input and an input of more than 5000 characters are rejected
\* with ValueError by the validation that run_multi and run_multi_stream
\* perform before they start the graph.
C36_InvalidInputRejected ==
  (op = "_validate_input" /\ (arg = <<>> \/ Len(arg) > MAX_INPUT_CHARS)) =>
    ret = Raise("ValueError")

\* The ids append has handed out that the log no longer holds: the ids of the
\* records a rollback discarded.
Discarded == (1..(nextId - 1)) \ IdsOf(load_all)

\* A step never brings a discarded id back: an id joins the log only as the
\* fresh id of an appended record.  And rollback(id) called again right after
\* it succeeded returns the same state and leaves the log as it is.
C37_Step ==
  /\ IdsOf(load_all') \subseteq IdsOf(load_all) \cup {nextId}
  /\ Discarded \subseteq Discarded'
  /\ (op = "rollback" /\ ret # None /\ op' = "rollback" /\ arg' = arg) =>
       /\ ret' = ret
       /\ load_all' = load_all

\* C37: after a successful rollback the ids of the discarded records are not
\* found again, however many appends follow: a rollback to one of them returns
\* None and leaves the log unchanged; and repeating a successful rollback(id)
\* returns the same state and leaves the log unchanged.
C37_DiscardedStayGone ==
  /\ []((op = "rollback" /\ arg \in 1..(nextId - 1) /\ arg \notin IdsOf(before)) =>
          (ret = None /\ load_all = before))
  /\ [][C37_Step]_vars

\* A rollback to an id discarded by an earlier rollback, after a later append:
\* it finds nothing.
C37_Witness ==
  /\ op = "rollback"
  /\ arg \in Discarded
  /\ \E id \in IdsOf(load_all) : id > arg
  /\ ret = None
  /\ load_all = before

\* The place of a node in the order the run's nodes completed.
PlaceOf(n) == CHOOSE i \in DOMAIN trail : trail[i] = n
RanInOrder ==
  /\ \A n \in DOMAIN writes \cup merged : InTrail(n)
  /\ \A i \in DOMAIN trail : Count(trail, trail[i]) = 1
  /\ \A e \in MultiEdges :
       (e[2] # "END" /\ InTrail(e[2])) =>
         (InTrail(e[1]) /\ PlaceOf(e[1]) < PlaceOf(e[2]))
  /\ (pc = "invoked" \/ RunReturned) =>
       /\ Len(trail) = Len(PipelineOrder)
       /\ trail[Len(trail)] = "reviewer"

\* C38: every run of the multi-agent graph ends, each node returning or
\* raising once started, and executes each of the seven nodes at most once:
\* planner before governance, governance before researcher and tool_exec, both
\* before executor, executor before audit, audit before reviewer, and the
\* reviewer is the last node of a run that reaches END.
C38_RunTerminates ==
  /\ [](graph = "multi" => RanInOrder)
  /\ (pc # "idle") ~> (pc = "idle")

\* A returned run that a gate of governance halted: the seven nodes ran, the
\* reviewer last.
C38_Witness ==
  /\ graph = "multi"
  /\ RunReturned
  /\ GateHalted
  /\ Len(trail) = Len(PipelineOrder)
  /\ trail[Len(trail)] = "reviewer"
  /\ runs = MaxRuns

\* The writes of audit have been merged in a run whose governance_node passed
\* every gate.
AuditedUnhalted ==
  /\ graph = "multi"
  /\ op = "invoke" \/ RunReturned
  /\ "audit" \in merged
  /\ gov.tag = "value"
  /\ gov.val.gate = "pass"

\* C39: in a run of the multi-agent pipeline started by run_multi in which
\* governance does not halt, audit_node never sets halt to
\* "post_validation_fail": it records a valid result and sets content_hash.
C39_AuditAlwaysValid ==
  AuditedUnhalted =>
    /\ Get(chan, "halt") # Some("post_validation_fail")
    /\ Has(chan, "audit")
    /\ chan.audit.valid
    /\ Has(chan, "content_hash")

\* A mapping argument read as the claim reads it: None is the empty mapping.
AsMapping(x) == IF x = None THEN EmptyDict ELSE x.val

\* C40: for all mappings a and b, each possibly None or empty, _merge_dict of
\* agent/state.py and _merge_dict of agent/multi/state.py return equal
\* mappings, the keys of b overriding those of a and the other keys of a kept,
\* and neither call changes a or b.
C40_MergeDictsAgree ==
  op = "_merge_dict" =>
    LET a == AsMapping(arg.a)
        b == AsMapping(arg.b)
    IN  /\ ret.single = ret.multi
        /\ DOMAIN ret.multi = DOMAIN a \cup DOMAIN b
        /\ \A k \in DOMAIN b : ret.multi[k] = b[k]
        /\ \A k \in DOMAIN a \ DOMAIN b : ret.multi[k] = a[k]
        /\ ret.single_args = arg
        /\ ret.multi_args = arg

\* Both arguments hold k1 with different values and a holds k2 alone.
C40_Witness ==
  /\ op = "_merge_dict"
  /\ arg.a = Some([k1 |-> 1, k2 |-> 2])
  /\ arg.b = Some([k1 |-> 2])
  /\ ret.single = [k1 |-> 2, k2 |-> 2]
  /\ ret.multi = [k1 |-> 2, k2 |-> 2]

====
